---- MODULE Spec2Model ----
(***************************************************************************)
(* Model of the subwave appsink presentation engine:                       *)
(*   - VideoRenderPipeline (render_pipeline.rs): the id -> VideoEntry map, *)
(*     upload / prepare / draw / cleanup, the 256-slot instance buffer;    *)
(*   - VideoPrimitive (render_pipeline.rs): the adapter the host calls;    *)
(*   - VideoPlayer::draw (video_player.rs): the widget that makes the      *)
(*     primitive and consumes the dirty flag;                              *)
(*   - the decode worker and Drop of AppsinkVideo (video.rs).              *)
(***************************************************************************)
EXTENDS Integers, Sequences, FiniteSets, TLC

\* ------------------------------------------------------------------ bounds
\* number of video sessions opened in one run
NumVideos == 2
\* longest run of prepare (or draw) calls for one id under Spec
MaxIndex == 3
\* longest run of prepare (or draw) calls for one id under SpecRing
RingMaxIndex == 258
\* samples the decode worker pulls in one run
MaxFrames == 2
\* most messages waiting on the pipeline's bus
MaxBus == 2
\* most audio streams, and most text streams, in a stream collection
MaxTracks == 2
\* largest width and height handed to the adapter under SpecAdapter
MaxSide == 4
\* largest width and height handed to yuv_to_rgba under SpecColor
MaxDim == 4
\* largest downscale factor handed to yuv_to_rgba under SpecColor
MaxDownscale == 3
\* calls made to the pixel-format catalog in one run
MaxLookups == 3
\* seconds of error recovery followed under SpecRetry
MaxClock == 64
\* reconnection attempts followed between two resets of the error state
MaxAttempts == 2

\* ------------------------------------------------------- program constants
\* slots of the instance buffer
Capacity == 256
\* size_of::<Uniforms>(): rect [f32; 4] (16 bytes) + _pad [u8; 240]
UniformsSize == 256

\* size in bytes of VideoEntry.instances
InstancesSize == Capacity * UniformsSize

\* (width, height) of the caps a session may be constructed with
CapsDims == {<<2, 2>>}

\* the width kept in video_props: the caps' width rounded up to a multiple of 4
AlignWidth(w) == ((w + 4 - 1) \div 4) * 4

\* video_props (width, height) for caps of dimensions d
PropsOf(d) == <<AlignWidth(d[1]), d[2]>>

\* length of the NV12 frame buffer: (width * height * 3).div_ceil(2)
FrameLen(w, h) == (w * h * 3 + 1) \div 2

VARIABLES
    next_id,      \* static NEXT_ID of from_gst_pipeline
    alive,        \* id -> Internal.alive (Arc<AtomicBool>), for ids handed out
    upload_frame, \* id -> Internal.upload_frame (the dirty flag)
    video_props,  \* id -> <<width, height>> of Internal.video_props
    frame,        \* id -> the shared frame buffer: [len, stamp]
    videos,       \* VideoRenderPipeline.videos: id -> VideoEntry
    prims,        \* the VideoPrimitives the host holds
    dpc,          \* position of the UI / drawing thread inside VideoPlayer::draw
                  \* and VideoPrimitive::prepare
    worker,       \* id -> the decode worker thread: position, locals
    locks,        \* id -> owner of the frame, video_props, last_frame_time mutex
    panicked,     \* the process panicked (wgpu's default uncaptured-error handler)
    gpu_error,    \* a wgpu validation error was reported
    written,      \* id -> offsets handed to write_buffer by the current run of
                  \* prepare calls (kept by the traced specifications)
    bound,        \* id -> offsets handed to set_bind_group by the current run of
                  \* draw calls (kept by the traced specifications)
    reclaimed,    \* ids whose entry a cleanup sweep removed
    last,         \* the last Registry call: what it was and what it saw
    thumb,        \* a call of yuv_to_rgba: its arguments and what it returned
    lookups,      \* the calls made to the VideoPixelFormat catalog, in order
    internal,     \* Internal's error recovery fields of one session
    clock,        \* Instant::now(), in seconds
    update,       \* position of the UI thread inside VideoPlayer::update
    present,      \* what the host does next with the frame it presents: "draw"
                  \* the widgets, "prepare" or "render" their primitives
    thumbs,       \* what the last call of thumbnails returned: "Ok", "Err", or
                  \* "none" before the first call returns
    playback,     \* Internal's end-of-stream fields, the pipeline's state and
                  \* bus, and the UI thread's place in VideoPlayer::update
    tracks,       \* Internal's stream collection and track selection, and the
                  \* last call made on them
    streams,      \* the Wayland backend's Internal: its pipeline, its
                  \* index-to-id tables and its stream selection, and the last
                  \* call made on them
    bus_thread,   \* the Wayland backend's bus thread: its locals, the messages it
                  \* handled and the SelectStreams events it sent
    pending,      \* the Wayland backend's Internal.pending_state and pipeline, and the
                  \* UI thread's place in SubsurfaceVideo::tick
    subsurface    \* the WaylandSubsurfaceManager's geometry and needs_update flag, what
                  \* its surfaces were last asked, and the threads in its setters and
                  \* in its pre-commit hook

\* the variables of the Wayland backend
wayland_vars == <<streams, bus_thread, pending, subsurface>>

vars == <<next_id, alive, upload_frame, video_props, frame, videos, prims, dpc,
          worker, locks,
          panicked, gpu_error, written, bound, reclaimed, last, thumb,
          lookups, internal, clock, update, present, thumbs, playback,
          tracks, wayland_vars>>

\* what the registry, the sessions and their threads never touch
aux_vars == <<thumb, lookups, internal, clock, update, present, thumbs,
              playback, tracks, wayland_vars>>

\* what only the specifications of the playback controls touch
control_vars == <<playback, tracks, wayland_vars>>

\* the error recovery of VideoPlayer::update
retry_vars == <<internal, clock, update>>

session_vars == <<next_id, alive, upload_frame, video_props, frame>>

thread_vars == <<worker, locks>>

\* ids handed out so far
Opened == DOMAIN alive

\* the frame buffer as the session constructor leaves it: zero-filled, no
\* sample in its first part (head) nor in its rest (stamp)
NoFrame == [len |-> 0, stamp |-> 0, head |-> 0]

\* what an upload call was given and what its two plane writes took
NoUpload == [frame |-> NoFrame, size |-> <<0, 0>>, y_from |-> 0, y_bytes |-> 0,
             uv_from |-> 0, uv_bytes |-> 0, uv_last |-> -1]

NoCall == [op |-> "none", id |-> 0, keys |-> {}, dead |-> {}, offset |-> -1,
           outcome |-> "none", up |-> NoUpload]

\* no call of yuv_to_rgba has been made
NoThumb == [width |-> 0, height |-> 0, downscale |-> 1, len |-> 0,
            yuv |-> <<0, 0, 0>>, outcome |-> "none", rgba |-> << >>]

\* Internal as the constructor leaves it: last_error_time: None (-1),
\* error_count: 0, is_reconnecting: false
NewInternal == [last_error_time |-> -1, error_count |-> 0, is_reconnecting |-> FALSE]

\* Internal after AppsinkVideo::new (video.rs, 333-357), the pipeline set to
\* Playing (video.rs, 124), and the UI thread outside VideoPlayer::update.
\* restart and eos_pause are the locals of update. The other fields tell what
\* the last update did: began: it passed the test of line 241; flagged: it
\* found restart_stream set; eos_loop, eos_stop: it handled an Eos message with
\* and without looping; restarted: it called restart_stream(); paused: it took
\* the eos_pause branch; reconnected: it called attempt_reconnect(); fresh: an
\* Eos message has been handled since the last restart by an update; call: the
\* last call that returned
NewPlayback ==
    [is_eos |-> FALSE, restart_stream |-> FALSE, looping |-> FALSE,
     is_reconnecting |-> FALSE, state |-> "Playing", bus |-> << >>,
     at |-> "idle", restart |-> FALSE, eos_pause |-> FALSE,
     began |-> FALSE, flagged |-> FALSE, eos_loop |-> FALSE, eos_stop |-> FALSE,
     restarted |-> FALSE, paused |-> FALSE, reconnected |-> FALSE,
     fresh |-> FALSE, call |-> "none"]

\* current_subtitle_track: None
NoTrack == -1

\* Internal's stream fields after AppsinkVideo::new (video.rs, 357-365):
\* stream_collection None (has_collection false), no tracks, and no call made.
\* A stream's id is its place in the collection; available_audio_tracks and
\* available_subtitles are kept by their lengths. call, before, round and
\* saved tell what the last call was, what it returned, the selection it found,
\* and the selection before a set_subtitles_enabled(false) that was followed
\* at once by set_subtitles_enabled(true)
NewTracks ==
    [has_collection |-> FALSE, stream_collection |-> << >>,
     available_audio_tracks |-> 0, available_subtitles |-> 0,
     current_audio_track |-> 0, current_subtitle_track |-> NoTrack,
     subtitles_enabled |-> FALSE, selected_stream_ids |-> << >>,
     call |-> [op |-> "none", result |-> "none"],
     before |-> <<NoTrack, 0, FALSE, << >> >>,
     round |-> "none",
     saved |-> <<NoTrack, 0, FALSE, << >> >>]

\* the stream fields of the Wayland backend's Internal after
\* SubsurfaceVideo::new (src/subwave_wayland/src/video.rs, 320-341): no
\* pipeline, no tracks, current_audio_track -1, current_subtitle_track None.
\* A stream's id is its place in the collection. call tells what the last
\* call was and what it returned
NewStreams ==
    [pipeline |-> FALSE,
     audio_index_to_stream_id |-> << >>, subtitle_index_to_stream_id |-> << >>,
     selected_stream_ids |-> << >>,
     current_audio_track |-> -1, current_subtitle_track |-> NoTrack,
     subtitles_enabled |-> FALSE,
     call |-> [op |-> "none", result |-> "none"]]

\* the locals of the Wayland backend's bus thread when it is spawned
\* (src/subwave_wayland/src/video.rs, 402-405): desired_select_ids None
\* (staged false), did_send_select and pipeline_ready false. handled counts
\* the messages popped, message is the last one popped, attempts and sent
\* count the SelectStreams events handed to the pipeline and those it took,
\* event is the ids of the last one; collected and reached: a
\* StreamCollection message was handled, a StateChanged message of the
\* pipeline to Paused or Playing was handled
NewBusThread ==
    [staged |-> FALSE, desired_select_ids |-> << >>,
     did_send_select |-> FALSE, pipeline_ready |-> FALSE,
     stop |-> FALSE, handled |-> 0, message |-> [kind |-> "none"],
     attempts |-> 0, sent |-> 0, event |-> << >>,
     collected |-> FALSE, reached |-> FALSE]

\* the Wayland backend's Internal after SubsurfaceVideo::new as far as tick
\* goes (src/subwave_wayland/src/video.rs, 320-341): pipeline None,
\* pending_state None (0; a queued PendingState is told by its number). at and
\* st: the place of the UI thread in tick and the state it took; queued and
\* ticks count the calls; applied: the states apply_state_now applied to the
\* end, in order; partial: the calls of it that failed at the seek;
\* no_pipeline: a tick put the state back for want of a pipeline
NewPending ==
    [pipeline |-> FALSE, pending_state |-> 0, at |-> "idle", st |-> 0,
     queued |-> 0, ticks |-> 0, applied |-> << >>, partial |-> 0,
     no_pipeline |-> FALSE]

\* the WaylandSubsurfaceManager after new (subsurface_manager.rs, 328-345),
\* with the wp_viewports of a compositor that has wp_viewporter: position
\* (0, 0), size (0, 0), source_size (0, 0, 0, 0), needs_update false.
\* surfaces: the position, destination and source last requested of the
\* subsurfaces and their viewports; hook and setter: the places of the thread
\* that runs the pre-commit hook and of the thread that calls a setter, with
\* their locals; sets and runs count the calls; issued: the hook run under
\* way, or the last one, made a surface request
NewSubsurface ==
    [viewport |-> TRUE,
     position |-> <<0, 0>>, size |-> <<0, 0>>, source_size |-> <<0, 0, 0, 0>>,
     needs_update |-> FALSE,
     surfaces |-> [position |-> <<0, 0>>, destination |-> <<0, 0>>,
                   source |-> <<0, 0, 0, 0>>],
     hook |-> [at |-> "idle", position |-> <<0, 0>>, size |-> <<0, 0>>,
               swapped |-> FALSE],
     setter |-> [at |-> "idle", op |-> "none", value |-> <<0, 0>>],
     sets |-> 0, runs |-> 0, issued |-> FALSE]

\* the UI thread is outside VideoPlayer::update; granted and attempts count the
\* retries approved and the reconnections attempted since the error state was
\* last reset; approved: should_retry_on_error returned true in this update
NoUpdate == [at |-> "idle", approved |-> FALSE, granted |-> 0, attempts |-> 0,
             call |-> "none", network |-> FALSE]

\* the UI thread is in none of the calls followed step by step; latest: the
\* last sample the worker had copied when the thread took the frame mutex;
\* sent: the sample in the buffer it handed to upload, -1 when it handed none
Idle == [at |-> "idle", video_id |-> 0, upload_frame |-> FALSE, size |-> <<0, 0>>,
         latest |-> 0, sent |-> -1]

\* the positions of the UI thread that are inside VideoPlayer::draw
ViewPositions == {"props1", "swap", "lft_wait", "lft", "dims_wait", "props2"}

Init ==
    /\ next_id = 0
    /\ alive = << >>
    /\ upload_frame = << >>
    /\ video_props = << >>
    /\ frame = << >>
    /\ videos = << >>
    /\ prims = {}
    /\ dpc = Idle
    /\ worker = << >>
    /\ locks = << >>
    /\ panicked = FALSE
    /\ gpu_error = FALSE
    /\ written = << >>
    /\ bound = << >>
    /\ reclaimed = {}
    /\ last = NoCall
    /\ thumb = NoThumb
    /\ lookups = << >>
    /\ internal = NewInternal
    /\ clock = 0
    /\ update = NoUpdate
    /\ present = "draw"
    /\ thumbs = "none"
    /\ playback = NewPlayback
    /\ tracks = NewTracks
    /\ subsurface = NewSubsurface
    /\ pending = NewPending
    /\ bus_thread = NewBusThread
    /\ streams = NewStreams

\* ------------------------------------------------------------ the Registry

\* the VideoEntry upload inserts
NewEntry(size) ==
    [prepare_index |-> 0, render_index |-> 0, width |-> size[1], height |-> size[2]]

\* self.videos after upload(video_id, ...): the entry is inserted when vacant
UploadMap(vs, video_id, size) ==
    IF video_id \in DOMAIN vs THEN vs ELSE vs @@ (video_id :> NewEntry(size))

\* bytes write_texture needs for the interleaved UV plane of a (w, h) frame:
\* bytes_per_row = w, extent (w/2, h/2) of 2-byte texels
UvBytes(w, h) ==
    IF w \div 2 = 0 \/ h \div 2 = 0 THEN 0
    ELSE w * (h \div 2 - 1) + (w \div 2) * 2

\* what the two plane writes of upload do with a frame buffer of len bytes, the
\* dimensions size and the entry's textures: &frame[..w*h] panics when the
\* buffer is shorter than the Y plane; a write past the texture's extent or with
\* too few bytes is a wgpu validation error
UploadOutcomes(entry, size, len) ==
    LET w == size[1]
        h == size[2]
    IN  IF len < w * h THEN {"panic"}
        ELSE IF \/ w > entry.width
                \/ h > entry.height
                \/ w \div 2 > entry.width \div 2
                \/ h \div 2 > entry.height \div 2
                \/ len - w * h < UvBytes(w, h)
             THEN {"reported", "panic"}
             ELSE {"ok"}

\* mutant: the chroma write takes one byte per texel
ChromaBytesOnePerTexel(w, h) == (w \div 2) * (h \div 2)

\* bytes the chroma write copies into texture_uv: h/2 rows of w/2 Rg8 texels
ChromaBytes(w, h) == (w \div 2) * 2 * (h \div 2)

\* bytes the luma write copies into texture_y: h rows of w R8 texels
LumaBytes(w, h) == w * h

\* what the two write_texture calls of an upload are asked to copy from the
\* frame buffer f, once &frame[..w*h] has been sliced: the Y plane from &frame[..w*h], the UV plane from &frame[w*h..] at
\* bytes_per_row = w
PlaneWrites(f, size) ==
    LET w == size[1]
        h == size[2]
    IN  [frame |-> f, size |-> size,
         y_from |-> 0, y_bytes |-> LumaBytes(w, h),
         uv_from |-> w * h, uv_bytes |-> ChromaBytes(w, h),
         uv_last |-> w * h + UvBytes(w, h) - 1]

\* byte offset prepare hands to queue.write_buffer
PrepareOffset(entry) == entry.prepare_index * UniformsSize

\* dynamic offset draw hands to set_bind_group
DrawOffset(entry) == entry.render_index * UniformsSize

\* what wgpu does with an access of UniformsSize bytes at offset: inside the
\* buffer it is carried out; outside it is a validation error, which the default
\* handler turns into a panic and an installed handler only reports
AccessOutcomes(offset) ==
    IF offset + UniformsSize <= InstancesSize THEN {"ok"} ELSE {"reported", "panic"}

\* mutant: prepare forgets to reset render_index
PreparedEntryKeepsRenderIndex(entry) ==
    [entry EXCEPT !.prepare_index = @ + 1]

\* the entry after prepare's write: prepare_index + 1, render_index := 0
PreparedEntry(entry) ==
    [entry EXCEPT !.prepare_index = @ + 1, !.render_index = 0]

\* mutant: draw forgets to advance render_index
DrawnEntryKeepsRenderIndex(entry) ==
    [entry EXCEPT !.prepare_index = 0]

\* the entry after draw: prepare_index := 0, render_index + 1
DrawnEntry(entry) ==
    [entry EXCEPT !.prepare_index = 0, !.render_index = @ + 1]

\* mutant: cleanup ignores the flag and collects every id
DeadIdsIgnoresFlag(vs, flags) == DOMAIN vs

\* mutant: cleanup tests the flag without the negation
DeadIdsInverted(vs, flags) == {id \in DOMAIN vs : flags[id]}

\* ids cleanup collects: the entries whose alive flag reads false
DeadIds(vs, flags) == {id \in DOMAIN vs : ~flags[id]}

\* self.videos after cleanup()
Cleanup(vs, flags) ==
    [id \in (DOMAIN vs) \ DeadIds(vs, flags) |-> vs[id]]

\* self.videos after reset_textures(video_id); the function has no caller
ResetTextures(vs, video_id) ==
    [id \in (DOMAIN vs) \ {video_id} |-> vs[id]]

\* ----------------------------------------------------- sessions (video.rs)

\* restriction of a per-id map to the ids in keep
Restrict(f, keep) == [id \in (DOMAIN f) \cap keep |-> f[id]]

\* the worker thread as it is spawned: at the loop test, caps not yet checked
NewWorker ==
    [pc |-> "check", caps_checked |-> FALSE, pulled |-> 0,
     sample |-> [stamp |-> 0, len |-> 0, dims |-> <<0, 0>>],
     done |-> 0, copied |-> FALSE]

\* the three mutexes of a session, none held
FreeLocks == [frame |-> "free", video_props |-> "free", last_frame_time |-> "free"]

\* mutant: the id counter is read and not advanced
FetchAddKeeps(n) == n

\* NEXT_ID after NEXT_ID.fetch_add(1, Ordering::SeqCst), one atomic step
FetchAdd(n) == n + 1

\* AppsinkVideo::from_gst_pipeline returns an error (the pipeline does not reach
\* the paused state, or the framerate is not a positive number): the id taken
\* at its start is not used by any session
OpenFails ==
    /\ ~panicked
    /\ next_id < NumVideos
    /\ next_id' = FetchAdd(next_id)
    /\ last' = NoCall
    /\ UNCHANGED <<alive, upload_frame, video_props, frame, videos, prims, dpc,
                   thread_vars, panicked, gpu_error, written, bound, reclaimed,
                   aux_vars>>

\* AppsinkVideo::from_gst_pipeline: the id is NEXT_ID.fetch_add(1), the flags
\* start alive = true, upload_frame = false, the frame buffer is zero-filled
OpenVideo ==
    /\ ~panicked
    /\ next_id < NumVideos
    /\ \E d \in CapsDims :
        /\ video_props' = video_props @@ (next_id :> PropsOf(d))
        /\ frame' = frame @@ (next_id :>
                [NoFrame EXCEPT !.len = FrameLen(AlignWidth(d[1]), d[2])])
    /\ worker' = worker @@ (next_id :> NewWorker)
    /\ locks' = locks @@ (next_id :> FreeLocks)
    /\ alive' = alive @@ (next_id :> TRUE)
    /\ upload_frame' = upload_frame @@ (next_id :> FALSE)
    /\ next_id' = FetchAdd(next_id)
    /\ last' = NoCall
    /\ UNCHANGED <<videos, prims, dpc, panicked, gpu_error, written, bound, reclaimed,
                   aux_vars>>

\* Drop for AppsinkVideo: alive.store(false), then the worker is joined; the
\* video cannot be dropped while a widget borrows it inside VideoPlayer::draw
DropVideo(id) ==
    /\ ~panicked
    /\ id \in Opened
    /\ ~(dpc.video_id = id /\ dpc.at \in ViewPositions)
    /\ alive[id]
    /\ alive' = [alive EXCEPT ![id] = FALSE]
    /\ last' = NoCall
    /\ UNCHANGED <<next_id, upload_frame, video_props, frame, videos, prims, dpc,
                   thread_vars, panicked, gpu_error, written, bound, reclaimed,
                   aux_vars>>

\* ------------------------------------------- the widget (video_player.rs)

\* VideoPlayer::draw: upload_frame.swap(false) and a VideoPrimitive carrying the
\* id, the swapped flag and the dimensions read from video_props. wrote: the
\* decode worker has copied a frame and set upload_frame since the last draw
WidgetDraw(id, wrote) ==
    /\ ~panicked
    /\ dpc = Idle
    /\ id \in Opened
    /\ alive[id]
    /\ prims' = prims \cup {[video_id |-> id,
                             upload_frame |-> (upload_frame[id] \/ wrote),
                             size |-> video_props[id]]}
    /\ upload_frame' = [upload_frame EXCEPT ![id] = FALSE]
    /\ last' = NoCall
    /\ UNCHANGED <<next_id, alive, video_props, frame, videos, dpc,
                   thread_vars, panicked, gpu_error, written, bound, reclaimed,
                   aux_vars>>

\* --------------------------------- the Registry's calls (render_pipeline.rs)

\* VideoRenderPipeline::upload(video_id, alive, size, frame, format): the
\* entry is created when vacant, then the two planes are written
Upload(video_id, size, f) ==
    /\ videos' = UploadMap(videos, video_id, size)
    /\ written' = IF video_id \in DOMAIN videos THEN written
                  ELSE written @@ (video_id :> << >>)
    /\ bound' = IF video_id \in DOMAIN videos THEN bound
                ELSE bound @@ (video_id :> << >>)
    /\ \E outcome \in UploadOutcomes(videos'[video_id], size, f.len) :
        /\ panicked' = (outcome = "panic")
        /\ gpu_error' = (gpu_error \/ outcome # "ok")
        /\ last' = [op |-> "upload", id |-> video_id, keys |-> DOMAIN videos,
                    dead |-> {}, offset |-> -1, outcome |-> outcome,
                    up |-> IF size[1] * size[2] <= f.len
                           THEN PlaneWrites(f, size)
                           ELSE [NoUpload EXCEPT !.frame = f, !.size = size]]
    /\ UNCHANGED reclaimed

\* mutant: prepare creates the entry of an id it does not know
PrepareAbsentCreates(video_id) ==
    /\ videos' = Cleanup(UploadMap(videos, video_id, video_props[video_id]), alive)
    /\ written' = Restrict(written @@ (video_id :> << >>), DOMAIN videos')
    /\ bound' = Restrict(bound @@ (video_id :> << >>), DOMAIN videos')
    /\ reclaimed' = reclaimed \cup DeadIds(videos, alive)
    /\ last' = [op |-> "prepare", id |-> video_id, keys |-> DOMAIN videos,
                dead |-> DeadIds(videos, alive), offset |-> -1, outcome |-> "absent", up |-> NoUpload]
    /\ UNCHANGED <<panicked, gpu_error>>

\* mutant: prepare returns early, before the sweep, when the id has no entry
PrepareAbsentSkipsSweep(video_id) ==
    /\ last' = [op |-> "prepare", id |-> video_id, keys |-> DOMAIN videos,
                dead |-> {}, offset |-> -1, outcome |-> "absent", up |-> NoUpload]
    /\ UNCHANGED <<videos, written, bound, reclaimed, panicked, gpu_error>>

\* VideoRenderPipeline::prepare(video_id, bounds) for an id that has no entry:
\* only the cleanup sweep runs
PrepareAbsent(video_id) ==
    /\ videos' = Cleanup(videos, alive)
    /\ written' = Restrict(written, DOMAIN videos')
    /\ bound' = Restrict(bound, DOMAIN videos')
    /\ reclaimed' = reclaimed \cup DeadIds(videos, alive)
    /\ last' = [op |-> "prepare", id |-> video_id, keys |-> DOMAIN videos,
                dead |-> DeadIds(videos, alive), offset |-> -1, outcome |-> "absent", up |-> NoUpload]
    /\ UNCHANGED <<panicked, gpu_error>>

\* mutant: prepare runs the sweep only when the id has no entry
PreparePresentSkipsSweep(video_id, outcome, trace) ==
    LET entry == videos[video_id]
        offset == PrepareOffset(entry)
    IN  /\ videos' = [videos EXCEPT ![video_id] = PreparedEntry(entry)]
        /\ written' = [written EXCEPT ![video_id] =
                            IF ~trace THEN @
                            ELSE IF bound[video_id] # << >> THEN <<offset>>
                            ELSE Append(@, offset)]
        /\ bound' = [bound EXCEPT ![video_id] = << >>]
        /\ panicked' = (outcome = "panic")
        /\ gpu_error' = (gpu_error \/ outcome # "ok")
        /\ last' = [op |-> "prepare", id |-> video_id, keys |-> DOMAIN videos,
                    dead |-> {}, offset |-> offset, outcome |-> outcome, up |-> NoUpload]
        /\ UNCHANGED reclaimed

\* VideoRenderPipeline::prepare(video_id, bounds) for an id that has an entry:
\* write_buffer at prepare_index * size_of::<Uniforms>(), prepare_index += 1,
\* render_index := 0, then the cleanup sweep
PreparePresent(video_id, outcome, trace) ==
    LET entry == videos[video_id]
        offset == PrepareOffset(entry)
        after == [videos EXCEPT ![video_id] = PreparedEntry(entry)]
    IN  IF outcome = "panic"
        THEN /\ panicked' = TRUE
             /\ gpu_error' = TRUE
             /\ last' = [op |-> "prepare", id |-> video_id, keys |-> DOMAIN videos,
                         dead |-> {}, offset |-> offset, outcome |-> outcome, up |-> NoUpload]
             /\ UNCHANGED <<videos, written, bound, reclaimed>>
        ELSE /\ videos' = Cleanup(after, alive)
             /\ written' = Restrict(
                    [written EXCEPT ![video_id] =
                        IF ~trace THEN @
                        ELSE IF bound[video_id] # << >> THEN <<offset>>
                        ELSE Append(@, offset)],
                    DOMAIN videos')
             /\ bound' = Restrict([bound EXCEPT ![video_id] = << >>], DOMAIN videos')
             /\ reclaimed' = reclaimed \cup DeadIds(after, alive)
             /\ gpu_error' = (gpu_error \/ outcome = "reported")
             /\ last' = [op |-> "prepare", id |-> video_id, keys |-> DOMAIN videos,
                         dead |-> DeadIds(after, alive), offset |-> offset,
                         outcome |-> outcome, up |-> NoUpload]
             /\ UNCHANGED panicked

\* VideoRenderPipeline::prepare
Prepare(video_id, max_index, trace) ==
    IF video_id \in DOMAIN videos
    THEN /\ videos[video_id].prepare_index < max_index
         /\ \E outcome \in AccessOutcomes(PrepareOffset(videos[video_id])) :
                PreparePresent(video_id, outcome, trace)
    ELSE PrepareAbsent(video_id)

\* VideoRenderPipeline::draw(target, encoder, clip, video_id): a pass that binds
\* bg0 at render_index * size_of::<Uniforms>(), then prepare_index := 0 and
\* render_index += 1; nothing at all when the id has no entry
Draw(video_id, max_index, trace) ==
    IF video_id \in DOMAIN videos
    THEN LET entry == videos[video_id]
             offset == DrawOffset(entry)
         IN  /\ entry.render_index < max_index
             /\ \E outcome \in AccessOutcomes(offset) :
                 /\ videos' = [videos EXCEPT ![video_id] = DrawnEntry(entry)]
                 /\ bound' = [bound EXCEPT ![video_id] =
                                IF trace THEN Append(@, offset) ELSE @]
                 /\ panicked' = (outcome = "panic")
                 /\ gpu_error' = (gpu_error \/ outcome # "ok")
                 /\ last' = [op |-> "draw", id |-> video_id, keys |-> DOMAIN videos,
                             dead |-> {}, offset |-> offset, outcome |-> outcome, up |-> NoUpload]
                 /\ UNCHANGED <<written, reclaimed>>
    ELSE /\ last' = [op |-> "draw", id |-> video_id, keys |-> DOMAIN videos,
                     dead |-> {}, offset |-> -1, outcome |-> "absent", up |-> NoUpload]
         /\ UNCHANGED <<videos, bound, panicked, gpu_error, written, reclaimed>>

\* ----------------------------- the adapter: VideoPrimitive (render_pipeline.rs)

\* the primitive has a frame to upload: self.upload_frame and the locked frame
\* buffer is not empty
\* mutant: the adapter takes every frame buffer for a non-empty one
IsEmptyNever(f) == FALSE

\* frame.is_empty()
IsEmpty(f) == f.len = 0

HasUpload(p) == p.upload_frame /\ ~IsEmpty(frame[p.video_id])

\* VideoPrimitive::prepare, first half: the frame mutex is taken, pipeline.upload
\* runs and the mutex is released
PrimitiveUpload(p) ==
    /\ ~panicked
    /\ dpc = Idle
    /\ p \in prims
    /\ HasUpload(p)
    /\ locks[p.video_id].frame = "free"
    /\ Upload(p.video_id, p.size, frame[p.video_id])
    /\ dpc' = [at |-> "uploaded", video_id |-> p.video_id, upload_frame |-> TRUE,
                size |-> p.size, latest |-> worker[p.video_id].done,
                sent |-> frame[p.video_id].stamp]
    /\ UNCHANGED <<session_vars, prims, thread_vars, aux_vars>>

\* VideoPrimitive::prepare, second half: pipeline.prepare, reached after the
\* upload or at once when the primitive has nothing to upload
PrimitivePrepare(video_id, max_index, trace) ==
    /\ ~panicked
    /\ \/ dpc.at = "uploaded" /\ dpc.video_id = video_id
       \/ /\ dpc = Idle
          /\ \E p \in prims : p.video_id = video_id /\ ~HasUpload(p)
    /\ Prepare(video_id, max_index, trace)
    /\ dpc' = Idle
    /\ UNCHANGED <<session_vars, prims, thread_vars, aux_vars>>

\* VideoPrimitive::render: pipeline.draw
PrimitiveRender(video_id, max_index, trace) ==
    /\ ~panicked
    /\ dpc = Idle
    /\ \E p \in prims : p.video_id = video_id
    /\ Draw(video_id, max_index, trace)
    /\ UNCHANGED <<session_vars, prims, dpc, thread_vars, aux_vars>>

\* ------------------------------------------------------------ specification

\* the id of the first session
RingId == 0

VideoIds == 0 .. (NumVideos - 1)

HostUpload == \E p \in prims : PrimitiveUpload(p)

HostPrepare == \E id \in VideoIds : PrimitivePrepare(id, MaxIndex, FALSE)

HostRender == \E id \in VideoIds : PrimitiveRender(id, MaxIndex, FALSE)

SessionDrop == \E id \in VideoIds : DropVideo(id)

HostView == \E id \in VideoIds, wrote \in BOOLEAN : WidgetDraw(id, wrote)

Next ==
    \/ OpenVideo
    \/ SessionDrop
    \/ HostView
    \/ HostUpload
    \/ HostPrepare
    \/ HostRender

Spec == Init /\ [][Next]_vars

\* ------------------- the decode worker, step by step (video.rs, 245-319)

\* dimensions of the caps a pulled sample may carry
SampleDims == {<<2, 2>>, <<6, 2>>}

\* mutant: a worker that writes the frame buffer without the mutex
CanLockFrameUnguarded(id) == TRUE

\* a worker that would wait for the dirty flag to be consumed as well
CanLockFrameWhenConsumed(id) == locks[id].frame = "free" /\ ~upload_frame[id]

\* the worker may take the frame mutex: std::sync::Mutex::lock waits for
\* nothing but the mutex
CanLockFrame(id) == locks[id].frame = "free"

\* a step of the worker thread of video id touches nothing of the UI thread
WorkerThread(id) ==
    /\ ~panicked
    /\ id \in Opened
    /\ last' = NoCall
    /\ UNCHANGED <<videos, prims, dpc, panicked, gpu_error, written, bound, reclaimed,
                   aux_vars>>

\* mutant: a loop that does not test the flag
LoopTestAlways(id) == TRUE

\* alive_ref.load(Ordering::Acquire)
LoopTest(id) == alive[id]

\* while alive_ref.load(Ordering::Acquire)
WorkerCheck(id) ==
    /\ WorkerThread(id)
    /\ worker[id].pc = "check"
    /\ worker' = [worker EXCEPT ![id].pc = IF LoopTest(id) THEN "pull" ELSE "exited"]
    /\ UNCHANGED <<session_vars, locks>>

\* try_pull_preroll / try_pull_sample with a 16 ms timeout: a sample, or none
\* (FlowError::Eos, the loop goes round)
WorkerPull(id) ==
    /\ WorkerThread(id)
    /\ worker[id].pc = "pull"
    /\ \/ worker' = [worker EXCEPT ![id].pc = "check"]
       \/ /\ worker[id].pulled < MaxFrames
          /\ \E d \in SampleDims :
                worker' = [worker EXCEPT
                    ![id].pc = "caps",
                    ![id].pulled = @ + 1,
                    ![id].copied = FALSE,
                    ![id].sample = [stamp |-> worker[id].pulled + 1,
                                    len |-> FrameLen(AlignWidth(d[1]), d[2]),
                                    dims |-> d]]
    /\ UNCHANGED <<session_vars, locks>>

\* mutant: the caps of every sample are read and the buffer resized each time
ChecksCapsAlways(w) == TRUE

\* if !caps_checked && let Some(caps) = sample.caps()
ChecksCaps(w) == ~w.caps_checked

\* if !caps_checked: video_props is locked and set from the sample's caps
WorkerCaps(id) ==
    /\ WorkerThread(id)
    /\ worker[id].pc = "caps"
    /\ IF ~ChecksCaps(worker[id])
       THEN /\ worker' = [worker EXCEPT ![id].pc = "lft_wait"]
            /\ UNCHANGED <<session_vars, locks>>
       ELSE /\ locks[id].video_props = "free"
            /\ locks' = [locks EXCEPT ![id].video_props = "worker"]
            /\ video_props' = [video_props EXCEPT ![id] = PropsOf(worker[id].sample.dims)]
            /\ worker' = [worker EXCEPT ![id].pc = "caps_props"]
            /\ UNCHANGED <<next_id, alive, upload_frame, frame>>

\* the frame mutex is locked while video_props is held, and the buffer resized
WorkerResize(id) ==
    /\ WorkerThread(id)
    /\ worker[id].pc = "caps_props"
    /\ CanLockFrame(id)
    /\ locks' = [locks EXCEPT ![id].frame = "worker"]
    /\ frame' = [frame EXCEPT ![id].len =
                    FrameLen(video_props[id][1], video_props[id][2])]
    /\ worker' = [worker EXCEPT ![id].pc = "caps_frame"]
    /\ UNCHANGED <<next_id, alive, upload_frame, video_props>>

\* drop(frame_guard); drop(props); caps_checked = true
WorkerCapsDone(id) ==
    /\ WorkerThread(id)
    /\ worker[id].pc = "caps_frame"
    /\ locks' = [locks EXCEPT ![id].frame = "free", ![id].video_props = "free"]
    /\ worker' = [worker EXCEPT ![id].pc = "lft_wait", ![id].caps_checked = TRUE]
    /\ UNCHANGED session_vars

\* *last_frame_time_ref.lock()? = Instant::now()
WorkerLockTime(id) ==
    /\ WorkerThread(id)
    /\ worker[id].pc = "lft_wait"
    /\ locks[id].last_frame_time = "free"
    /\ locks' = [locks EXCEPT ![id].last_frame_time = "worker"]
    /\ worker' = [worker EXCEPT ![id].pc = "lft"]
    /\ UNCHANGED session_vars

WorkerUnlockTime(id) ==
    /\ WorkerThread(id)
    /\ worker[id].pc = "lft"
    /\ locks' = [locks EXCEPT ![id].last_frame_time = "free"]
    /\ worker' = [worker EXCEPT ![id].pc = "frame_wait"]
    /\ UNCHANGED session_vars

\* let mut frame = frame_ref.lock()?
WorkerLockFrame(id) ==
    /\ WorkerThread(id)
    /\ worker[id].pc = "frame_wait"
    /\ CanLockFrame(id)
    /\ locks' = [locks EXCEPT ![id].frame = "worker"]
    /\ worker' = [worker EXCEPT ![id].pc = "copy_head"]
    /\ UNCHANGED session_vars

\* if map.len() >= frame_len
Fits(f, sample) == sample.len >= f.len

\* the frame buffer when copy_from_slice has copied the first part of a sample
HeadCopied(f, sample) ==
    IF Fits(f, sample) THEN [f EXCEPT !.head = sample.stamp] ELSE f

\* the frame buffer after the worker's copy of a sample: the sample's bytes when
\* map.len() >= frame_len, the old bytes otherwise
CopiedFrame(f, sample) ==
    IF Fits(f, sample) THEN [f EXCEPT !.stamp = sample.stamp] ELSE f

\* frame.copy_from_slice(&map.as_slice()[..frame_len]) under way: the first
\* part of the buffer holds the new sample, the rest the bytes from before
WorkerCopyHead(id) ==
    /\ WorkerThread(id)
    /\ worker[id].pc = "copy_head"
    /\ frame' = [frame EXCEPT ![id] = HeadCopied(@, worker[id].sample)]
    /\ worker' = [worker EXCEPT ![id].pc = "copy"]
    /\ UNCHANGED <<next_id, alive, upload_frame, video_props, locks>>

\* if map.len() >= frame_len { frame.copy_from_slice(..) } has finished
WorkerCopy(id) ==
    /\ WorkerThread(id)
    /\ worker[id].pc = "copy"
    /\ frame' = [frame EXCEPT ![id] = CopiedFrame(@, worker[id].sample)]
    /\ worker' = [worker EXCEPT
            ![id].pc = "swap",
            ![id].copied = Fits(frame[id], worker[id].sample),
            ![id].done = IF Fits(frame[id], worker[id].sample)
                         THEN worker[id].sample.stamp ELSE @]
    /\ UNCHANGED <<next_id, alive, upload_frame, video_props, locks>>

\* upload_frame_ref.swap(true, Ordering::SeqCst), the frame mutex still held
WorkerSwap(id) ==
    /\ WorkerThread(id)
    /\ worker[id].pc = "swap"
    /\ upload_frame' = [upload_frame EXCEPT ![id] = TRUE]
    /\ worker' = [worker EXCEPT ![id].pc = "copied"]
    /\ UNCHANGED <<next_id, alive, video_props, frame, locks>>

\* the closure returns: the frame guard is dropped
WorkerUnlockFrame(id) ==
    /\ WorkerThread(id)
    /\ worker[id].pc = "copied"
    /\ locks' = [locks EXCEPT ![id].frame = "free"]
    /\ worker' = [worker EXCEPT ![id].pc = "check"]
    /\ UNCHANGED session_vars

\* one step of the worker thread of video id
WorkerStep(id) ==
    \/ WorkerCheck(id)
    \/ WorkerPull(id)
    \/ WorkerCaps(id)
    \/ WorkerResize(id)
    \/ WorkerCapsDone(id)
    \/ WorkerLockTime(id)
    \/ WorkerUnlockTime(id)
    \/ WorkerLockFrame(id)
    \/ WorkerCopyHead(id)
    \/ WorkerCopy(id)
    \/ WorkerSwap(id)
    \/ WorkerUnlockFrame(id)

\* ------------- VideoPlayer::draw, step by step (video_player.rs, 152-225)

registry_vars == <<videos, panicked, gpu_error, written, bound, reclaimed>>

\* a step of the UI thread inside VideoPlayer::draw touches neither the worker
\* nor the registry
ViewThread ==
    /\ ~panicked
    /\ last' = NoCall
    /\ UNCHANGED <<worker, registry_vars, aux_vars>>

\* let props = inner.video_props.lock()
ViewLockProps(id) ==
    /\ ViewThread
    /\ dpc = Idle
    /\ id \in Opened
    /\ alive[id]
    /\ locks[id].video_props = "free"
    /\ locks' = [locks EXCEPT ![id].video_props = "ui"]
    /\ dpc' = [Idle EXCEPT !.at = "props1", !.video_id = id]
    /\ UNCHANGED <<session_vars, prims>>

\* drop(props)
ViewUnlockProps ==
    /\ ViewThread
    /\ dpc.at = "props1"
    /\ locks' = [locks EXCEPT ![dpc.video_id].video_props = "free"]
    /\ dpc' = [dpc EXCEPT !.at = "swap"]
    /\ UNCHANGED <<session_vars, prims>>

\* mutant: the value the swap returns is dropped
SwapResultLost(id) == FALSE

\* what upload_frame.swap(false, SeqCst) returns: the flag as it was
SwapResult(id) == upload_frame[id]

\* let upload_frame = inner.upload_frame.swap(false, SeqCst)
ViewSwap ==
    /\ ViewThread
    /\ dpc.at = "swap"
    /\ upload_frame' = [upload_frame EXCEPT ![dpc.video_id] = FALSE]
    /\ dpc' = [dpc EXCEPT !.upload_frame = SwapResult(dpc.video_id),
                          !.at = IF SwapResult(dpc.video_id)
                                 THEN "lft_wait" ELSE "dims_wait"]
    /\ UNCHANGED <<next_id, alive, video_props, frame, prims, locks>>

\* if upload_frame: inner.last_frame_time.lock()
ViewLockTime ==
    /\ ViewThread
    /\ dpc.at = "lft_wait"
    /\ locks[dpc.video_id].last_frame_time = "free"
    /\ locks' = [locks EXCEPT ![dpc.video_id].last_frame_time = "ui"]
    /\ dpc' = [dpc EXCEPT !.at = "lft"]
    /\ UNCHANGED <<session_vars, prims>>

\* the guard is dropped at the end of the statement; set_av_offset
ViewUnlockTime ==
    /\ ViewThread
    /\ dpc.at = "lft"
    /\ locks' = [locks EXCEPT ![dpc.video_id].last_frame_time = "free"]
    /\ dpc' = [dpc EXCEPT !.at = "dims_wait"]
    /\ UNCHANGED <<session_vars, prims>>

\* render: let props = inner.video_props.lock()
ViewLockDims ==
    /\ ViewThread
    /\ dpc.at = "dims_wait"
    /\ locks[dpc.video_id].video_props = "free"
    /\ locks' = [locks EXCEPT ![dpc.video_id].video_props = "ui"]
    /\ dpc' = [dpc EXCEPT !.at = "props2"]
    /\ UNCHANGED <<session_vars, prims>>

\* dims = (props.width, props.height); drop(props); draw_primitive(.., VideoPrimitive)
ViewPrimitive ==
    /\ ViewThread
    /\ dpc.at = "props2"
    /\ locks' = [locks EXCEPT ![dpc.video_id].video_props = "free"]
    /\ prims' = prims \cup {[video_id |-> dpc.video_id,
                             upload_frame |-> dpc.upload_frame,
                             size |-> video_props[dpc.video_id]]}
    /\ dpc' = Idle
    /\ UNCHANGED session_vars

\* one step of the UI thread inside VideoPlayer::draw
ViewStep ==
    \/ \E id \in Opened : ViewLockProps(id)
    \/ ViewUnlockProps
    \/ ViewSwap
    \/ ViewLockTime
    \/ ViewUnlockTime
    \/ ViewLockDims
    \/ ViewPrimitive

\* ------- VideoPrimitive::prepare, step by step (render_pipeline.rs, 560-573)

\* if self.upload_frame: let frame = self.frame.lock().expect(..): the guard
\* is taken when the mutex is free; a poisoned mutex makes expect panic
PrepareLockFrame(p) ==
    /\ ~panicked
    /\ dpc = Idle
    /\ p \in prims
    /\ p.upload_frame
    /\ locks[p.video_id].frame \in {"free", "poisoned"}
    /\ IF locks[p.video_id].frame = "poisoned"
       THEN /\ panicked' = TRUE
            /\ UNCHANGED <<locks, dpc>>
       ELSE /\ locks' = [locks EXCEPT ![p.video_id].frame = "ui"]
            /\ dpc' = [at |-> "frame", video_id |-> p.video_id,
                       upload_frame |-> TRUE, size |-> p.size,
                       latest |-> worker[p.video_id].done, sent |-> -1]
            /\ UNCHANGED panicked
    /\ last' = NoCall
    /\ UNCHANGED <<session_vars, prims, worker, videos, gpu_error, written, bound,
                   reclaimed, aux_vars>>

\* if !frame.is_empty(): pipeline.upload(.., self.size, &frame, ..)
PrepareUploadLocked ==
    /\ ~panicked
    /\ dpc.at = "frame"
    /\ IF ~IsEmpty(frame[dpc.video_id])
       THEN Upload(dpc.video_id, dpc.size, frame[dpc.video_id])
       ELSE last' = NoCall /\ UNCHANGED registry_vars
    /\ dpc' = [dpc EXCEPT !.at = "uploaded_locked",
                          !.sent = IF IsEmpty(frame[dpc.video_id]) THEN -1
                                   ELSE frame[dpc.video_id].stamp]
    /\ UNCHANGED <<session_vars, prims, thread_vars, aux_vars>>

\* mutant: the frame guard lives to the end of VideoPrimitive::prepare
PrepareUnlockFrameKeepsLock ==
    /\ ~panicked
    /\ dpc.at = "uploaded_locked"
    /\ dpc' = [dpc EXCEPT !.at = "uploaded"]
    /\ last' = NoCall
    /\ UNCHANGED <<session_vars, prims, thread_vars, registry_vars, aux_vars>>

\* the frame guard is dropped at the end of the if block
PrepareUnlockFrame ==
    /\ ~panicked
    /\ dpc.at = "uploaded_locked"
    /\ locks' = [locks EXCEPT ![dpc.video_id].frame = "free"]
    /\ dpc' = [dpc EXCEPT !.at = "uploaded"]
    /\ last' = NoCall
    /\ UNCHANGED <<session_vars, prims, worker, registry_vars, aux_vars>>

\* ------------------ one video, the worker and the UI thread interleaved

HandoffOpen == next_id = RingId /\ OpenVideo

HandoffDrop == DropVideo(RingId)

HandoffWorker == WorkerStep(RingId)

HandoffLock == \E p \in prims : PrepareLockFrame(p)

\* pipeline.prepare: after the upload block, or at once for a primitive whose
\* upload_frame is false
HandoffPrepare ==
    /\ dpc.at = "uploaded" \/ \E p \in prims : ~p.upload_frame
    /\ PrimitivePrepare(RingId, MaxIndex, FALSE)

HandoffRender == PrimitiveRender(RingId, MaxIndex, FALSE)

NextHandoff ==
    \/ HandoffOpen
    \/ HandoffDrop
    \/ HandoffWorker
    \/ ViewStep
    \/ HandoffLock
    \/ PrepareUploadLocked
    \/ PrepareUnlockFrame
    \/ HandoffPrepare
    \/ HandoffRender

SpecHandoff == Init /\ [][NextHandoff]_vars

\* ------------- the adapter and the Registry on any frame buffer and size

\* (width, height) a primitive may carry
AdapterSizes == (1 .. MaxSide) \X (1 .. MaxSide)

\* lengths of the frame buffer tried with a primitive of the given size: empty,
\* around the end of the Y plane, around the end of the UV plane
AdapterLens(size) ==
    LET y == size[1] * size[2]
        n == FrameLen(size[1], size[2])
    IN  {0, y - 1, y, n - 1, n, n + 1}

\* dimensions of an earlier upload for the id: the given ones, or the ones the
\* session had before a sample announced others (transposed, or larger)
EarlierSizes(size) == {size, <<size[2], size[1]>>, <<size[1] + 2, size[2] + 2>>}

\* the map of the Registry before the adapter is called: empty, or holding the
\* entry an earlier upload created with the textures of its dimensions
AdapterMaps(size) ==
    {<< >>} \cup {RingId :> NewEntry(earlier) : earlier \in EarlierSizes(size)}

\* the frame mutex as the adapter finds it: free, or poisoned by a thread that
\* panicked while it held the guard
AdapterLocks == {"free", "poisoned"}

\* one session, its widget drawn once: the host holds one primitive
InitAdapter ==
    /\ next_id = 1
    /\ alive = (RingId :> TRUE)
    /\ upload_frame = (RingId :> FALSE)
    /\ worker = (RingId :> NewWorker)
    /\ dpc = Idle
    /\ panicked = FALSE
    /\ gpu_error = FALSE
    /\ reclaimed = {}
    /\ last = NoCall
    /\ thumb = NoThumb
    /\ lookups = << >>
    /\ internal = NewInternal
    /\ clock = 0
    /\ update = NoUpdate
    /\ present = "draw"
    /\ thumbs = "none"
    /\ playback = NewPlayback
    /\ tracks = NewTracks
    /\ subsurface = NewSubsurface
    /\ pending = NewPending
    /\ bus_thread = NewBusThread
    /\ streams = NewStreams
    /\ \E size \in AdapterSizes :
        /\ video_props = (RingId :> size)
        /\ \E dirty \in BOOLEAN :
            prims = {[video_id |-> RingId, upload_frame |-> dirty, size |-> size]}
        /\ \E len \in AdapterLens(size) :
            frame = (RingId :> [NoFrame EXCEPT !.len = len])
        /\ \E vs \in AdapterMaps(size) :
            /\ videos = vs
            /\ written = [id \in DOMAIN vs |-> << >>]
            /\ bound = [id \in DOMAIN vs |-> << >>]
    /\ \E l \in AdapterLocks :
        locks = (RingId :> [FreeLocks EXCEPT !.frame = l])

NextAdapter ==
    \/ HandoffLock
    \/ PrepareUploadLocked
    \/ PrepareUnlockFrame
    \/ HandoffPrepare
    \/ HandoffRender

SpecAdapter == InitAdapter /\ [][NextAdapter]_vars

\* ------------------------- sessions constructed, some of them in vain

NextSessions ==
    \/ OpenVideo
    \/ OpenFails
    \/ SessionDrop
    \/ HostView
    \/ HostPrepare
    \/ HostRender

SpecSessions == Init /\ [][NextSessions]_vars

\* -------- AppsinkVideo::thumbnails, step by step (video.rs, 389-437)

\* a step of the UI thread inside thumbnails touches neither the worker nor the
\* registry
ThumbThread ==
    /\ ~panicked
    /\ last' = NoCall
    /\ UNCHANGED <<worker, registry_vars, prims, thumb, lookups, retry_vars,
                   present, control_vars>>

\* let props = inner.video_props.lock().expect(..)
ThumbLockProps(id) ==
    /\ ThumbThread
    /\ dpc = Idle
    /\ id \in Opened
    /\ alive[id]
    /\ locks[id].video_props = "free"
    /\ locks' = [locks EXCEPT ![id].video_props = "ui"]
    /\ dpc' = [Idle EXCEPT !.at = "t_props", !.video_id = id]
    /\ UNCHANGED <<session_vars, thumbs>>

\* width and height are read; drop(props)
ThumbUnlockProps ==
    /\ ThumbThread
    /\ dpc.at = "t_props"
    /\ locks' = [locks EXCEPT ![dpc.video_id].video_props = "free"]
    /\ dpc' = [dpc EXCEPT !.at = "t_seek", !.size = video_props[dpc.video_id]]
    /\ UNCHANGED <<session_vars, thumbs>>

\* inner.seek(pos, true)? returns the error: thumbnails returns it
ThumbSeekFails ==
    /\ ThumbThread
    /\ dpc.at = "t_seek"
    /\ dpc' = Idle
    /\ thumbs' = "Err"
    /\ UNCHANGED <<session_vars, locks>>

\* the seek went through: inner.upload_frame.store(false, SeqCst)
ThumbStore ==
    /\ ThumbThread
    /\ dpc.at = "t_seek"
    /\ upload_frame' = [upload_frame EXCEPT ![dpc.video_id] = FALSE]
    /\ dpc' = [dpc EXCEPT !.at = "t_spin"]
    /\ UNCHANGED <<next_id, alive, video_props, frame, locks, thumbs>>

\* while !inner.upload_frame.load(SeqCst) { spin_loop() } is left
ThumbSpin ==
    /\ ThumbThread
    /\ dpc.at = "t_spin"
    /\ upload_frame[dpc.video_id]
    /\ dpc' = [dpc EXCEPT !.at = "t_frame_wait", !.upload_frame = TRUE]
    /\ UNCHANGED <<session_vars, locks, thumbs>>

\* let frame_guard = inner.frame.lock()
ThumbLockFrame ==
    /\ ThumbThread
    /\ dpc.at = "t_frame_wait"
    /\ locks[dpc.video_id].frame = "free"
    /\ locks' = [locks EXCEPT ![dpc.video_id].frame = "ui"]
    /\ dpc' = [dpc EXCEPT !.at = "t_frame", !.latest = worker[dpc.video_id].done]
    /\ UNCHANGED <<session_vars, thumbs>>

\* yuv_to_rgba has read the buffer; the guard is dropped at the end of the
\* closure, and thumbnails returns after the last position: the handles, or the
\* error of self.seek(pos, true)? that puts the position back
ThumbUnlockFrame ==
    /\ ThumbThread
    /\ dpc.at = "t_frame"
    /\ locks' = [locks EXCEPT ![dpc.video_id].frame = "free"]
    /\ dpc' = Idle
    /\ thumbs' \in {"Ok", "Err"}
    /\ UNCHANGED session_vars

\* --------- one video: the frames the host presents, thumbnails, teardown

\* Drop for AppsinkVideo, after alive.store(false): worker.join() is waiting
Joining(id) == id \in Opened /\ ~alive[id] /\ worker[id].pc \notin {"exited", "joined"}

\* a step of the host between two calls of the widget and its primitive
HostStep ==
    /\ ~panicked
    /\ last' = NoCall
    /\ UNCHANGED <<session_vars, thread_vars, registry_vars, dpc, thumb, lookups,
                   retry_vars, thumbs,
                   control_vars>>

\* the video is dropped by the thread that draws it, between two calls
PresentDrop == dpc = Idle /\ DropVideo(RingId)

\* worker.join() returns: the worker thread has left its loop
PresentJoin ==
    /\ ~panicked
    /\ RingId \in Opened
    /\ ~alive[RingId]
    /\ worker[RingId].pc = "exited"
    /\ worker' = [worker EXCEPT ![RingId].pc = "joined"]
    /\ last' = NoCall
    /\ UNCHANGED <<session_vars, locks, registry_vars, prims, dpc, aux_vars>>

\* the host draws the widget tree of a frame: VideoPlayer::draw is entered
PresentLockProps ==
    /\ ~Joining(RingId)
    /\ present = "draw"
    /\ prims = {}
    /\ ViewLockProps(RingId)

\* the application asks for thumbnails between two frames
PresentThumbnails ==
    /\ ~Joining(RingId)
    /\ present = "draw"
    /\ prims = {}
    /\ ThumbLockProps(RingId)

\* the widget tree is drawn: the primitives are prepared next
PresentDrawn ==
    /\ HostStep
    /\ ~Joining(RingId)
    /\ present = "draw"
    /\ dpc = Idle
    /\ prims # {}
    /\ present' = "prepare"
    /\ UNCHANGED prims

\* VideoPrimitive::prepare with upload_frame: the frame mutex is taken
PresentLock ==
    /\ ~Joining(RingId)
    /\ present = "prepare"
    /\ \E p \in prims : PrepareLockFrame(p)

\* VideoPrimitive::prepare without upload_frame: the if block is skipped
PresentSkipUpload ==
    /\ ~panicked
    /\ ~Joining(RingId)
    /\ present = "prepare"
    /\ dpc = Idle
    /\ \E p \in prims :
        /\ ~p.upload_frame
        /\ dpc' = [Idle EXCEPT !.at = "uploaded", !.video_id = p.video_id,
                               !.size = p.size]
    /\ last' = NoCall
    /\ UNCHANGED <<session_vars, thread_vars, registry_vars, prims, aux_vars>>

\* the upload block of VideoPrimitive::prepare is behind: pipeline.prepare is
\* next, and the render pass after it
PresentUploaded ==
    /\ HostStep
    /\ present = "prepare"
    /\ dpc.at = "uploaded"
    /\ present' = "render"
    /\ UNCHANGED prims

\* pipeline.prepare, the end of VideoPrimitive::prepare
PresentPrepare ==
    /\ present = "render"
    /\ dpc.at = "uploaded"
    /\ PrimitivePrepare(RingId, MaxIndex, FALSE)

\* the entry of the video is waiting for its draw
Prepared(id) == id \in DOMAIN videos /\ videos[id].prepare_index > 0

\* VideoPrimitive::render
PresentRender ==
    /\ ~Joining(RingId)
    /\ present = "render"
    /\ Prepared(RingId)
    /\ PrimitiveRender(RingId, MaxIndex, FALSE)

\* VideoPrimitive::render of a video without entry: pipeline.draw returns at
\* once; the frame is presented and the host drops its primitives
PresentRenderAbsent ==
    /\ ~panicked
    /\ ~Joining(RingId)
    /\ present = "render"
    /\ dpc = Idle
    /\ RingId \notin DOMAIN videos
    /\ \E p \in prims : p.video_id = RingId
    /\ Draw(RingId, MaxIndex, FALSE)
    /\ present' = "draw"
    /\ prims' = {}
    /\ UNCHANGED <<session_vars, dpc, thread_vars, thumb, lookups, retry_vars,
                   thumbs,
                   control_vars>>

\* the frame is presented; the host drops its primitives
PresentEnd ==
    /\ HostStep
    /\ ~Joining(RingId)
    /\ present = "render"
    /\ dpc = Idle
    /\ RingId \in DOMAIN videos
    /\ videos[RingId].prepare_index = 0
    /\ present' = "draw"
    /\ prims' = {}

\* a step of the thread that draws; it starts no call while it is inside
\* worker.join()
UiStep ==
    \/ PresentLockProps
    \/ ViewUnlockProps
    \/ ViewSwap
    \/ ViewLockTime
    \/ ViewUnlockTime
    \/ ViewLockDims
    \/ ViewPrimitive
    \/ PresentThumbnails
    \/ ThumbUnlockProps
    \/ ThumbSeekFails
    \/ ThumbStore
    \/ ThumbSpin
    \/ ThumbLockFrame
    \/ ThumbUnlockFrame
    \/ PresentDrawn
    \/ PresentLock
    \/ PresentSkipUpload
    \/ PrepareUploadLocked
    \/ PrepareUnlockFrame
    \/ PresentUploaded
    \/ PresentPrepare
    \/ PresentRender
    \/ PresentRenderAbsent
    \/ PresentEnd

NextPresent ==
    \/ HandoffOpen
    \/ PresentDrop
    \/ PresentJoin
    \/ HandoffWorker
    \/ UiStep

SpecPresent == Init /\ [][NextPresent]_vars

\* the worker thread and the thread that draws are scheduled, and join returns
\* once the worker has exited
FairPresent ==
    /\ SpecPresent
    /\ WF_vars(HandoffWorker)
    /\ WF_vars(UiStep)
    /\ WF_vars(PresentJoin)

\* the same, with a host that keeps drawing the widget of the video: it does
\* not ask for thumbnails for ever instead
FairDrawing == FairPresent /\ SF_vars(PresentLockProps)

\* ------------------------------- yuv_to_rgba (video.rs, 693-720)

\* the byte at index i of an NV12 buffer of t.width x t.height pixels whose Y
\* plane holds t.yuv[1] everywhere and whose interleaved UV plane holds the
\* pairs (t.yuv[2], t.yuv[3])
YuvAt(t, i) ==
    LET uv_start == t.width * t.height
    IN  IF i < uv_start THEN t.yuv[1]
        ELSE IF (i - uv_start) % 2 = 0 THEN t.yuv[2]
        ELSE t.yuv[3]

\* index of the luma byte read for output pixel (x, y)
LumaIndex(t, x, y) == (y * t.downscale) * t.width + x * t.downscale

\* mutant: the U byte taken at the source column itself
ChromaIndexUnpaired(t, x, y) ==
    t.width * t.height + t.width * ((y * t.downscale) \div 2) + x * t.downscale

\* uv_i: index of the U byte read for output pixel (x, y); V is read at uv_i + 1
ChromaIndex(t, x, y) ==
    t.width * t.height + t.width * ((y * t.downscale) \div 2)
        + ((x * t.downscale) \div 2) * 2

\* mutant: luma taken as full range, without offset and scale
LumaTermFullRange(y) == 1000 * y

\* 1.164 * (y - 16.0), in thousandths
LumaTerm(y) == 1164 * (y - 16)

\* r, g, b as f32, in thousandths
Red(y, u, v) == LumaTerm(y) + 1596 * (v - 128)

Green(y, u, v) == LumaTerm(y) - 813 * (v - 128) - 391 * (u - 128)

Blue(y, u, v) == LumaTerm(y) + 2018 * (u - 128)

\* `as u8` of an f32 given in thousandths: the fraction is dropped and the
\* value saturates at 0 and 255
AsU8(m) ==
    IF m <= 0 THEN 0
    ELSE IF m \div 1000 > 255 THEN 255
    ELSE m \div 1000

\* the four bytes pushed for output pixel (x, y)
Pixel(t, x, y) ==
    LET yy == YuvAt(t, LumaIndex(t, x, y))
        u == YuvAt(t, ChromaIndex(t, x, y))
        v == YuvAt(t, ChromaIndex(t, x, y) + 1)
    IN  <<AsU8(Red(yy, u, v)), AsU8(Green(yy, u, v)), AsU8(Blue(yy, u, v)), 255>>

\* the indexing of output pixel (x, y) stays inside the buffer
InBounds(t, x, y) ==
    /\ LumaIndex(t, x, y) < t.len
    /\ ChromaIndex(t, x, y) + 1 < t.len

RECURSIVE RgbaRow(_, _, _)
\* the inner loop: for x in 0..width / downscale, from column x on
RgbaRow(t, y, x) ==
    IF x >= t.width \div t.downscale THEN << >>
    ELSE Pixel(t, x, y) \o RgbaRow(t, y, x + 1)

RECURSIVE RgbaRows(_, _)
\* the outer loop: for y in 0..height / downscale, from row y on
RgbaRows(t, y) ==
    IF y >= t.height \div t.downscale THEN << >>
    ELSE RgbaRow(t, y, 0) \o RgbaRows(t, y + 1)

\* yuv_to_rgba(yuv, width, height, downscale): the vector it returns, or the
\* panic of the first slice index that is out of bounds
YuvToRgba(t) ==
    IF \A x \in 0 .. (t.width \div t.downscale - 1),
          y \in 0 .. (t.height \div t.downscale - 1) : InBounds(t, x, y)
    THEN [t EXCEPT !.outcome = "ok", !.rgba = RgbaRows(t, 0)]
    ELSE [t EXCEPT !.outcome = "panic"]

\* (Y, U, V) of the uniform buffers converted: limited-range white and black,
\* mid grey, red, and the two ends of the byte range
ColorPoints ==
    {<<235, 128, 128>>, <<16, 128, 128>>, <<126, 128, 128>>, <<81, 90, 240>>,
     <<0, 0, 0>>, <<255, 255, 255>>}

\* the arguments of a call: a buffer as a session holds it for its dimensions
InitColor ==
    /\ next_id = 0
    /\ alive = << >>
    /\ upload_frame = << >>
    /\ video_props = << >>
    /\ frame = << >>
    /\ videos = << >>
    /\ prims = {}
    /\ dpc = Idle
    /\ worker = << >>
    /\ locks = << >>
    /\ panicked = FALSE
    /\ gpu_error = FALSE
    /\ written = << >>
    /\ bound = << >>
    /\ reclaimed = {}
    /\ last = NoCall
    /\ \E w \in 1 .. MaxDim, h \in 1 .. MaxDim, d \in 1 .. MaxDownscale,
          c \in ColorPoints :
        thumb = [NoThumb EXCEPT !.width = w, !.height = h, !.downscale = d,
                                !.len = FrameLen(w, h), !.yuv = c]
    /\ lookups = << >>
    /\ internal = NewInternal
    /\ clock = 0
    /\ update = NoUpdate
    /\ present = "draw"
    /\ thumbs = "none"
    /\ playback = NewPlayback
    /\ tracks = NewTracks
    /\ subsurface = NewSubsurface
    /\ pending = NewPending
    /\ bus_thread = NewBusThread
    /\ streams = NewStreams

\* the call is made
ThumbConvert ==
    /\ thumb.outcome = "none"
    /\ thumb' = YuvToRgba(thumb)
    /\ UNCHANGED <<next_id, alive, upload_frame, video_props, frame, videos, prims,
                   dpc, worker, locks, panicked, gpu_error, written, bound,
                   reclaimed, last, lookups, retry_vars, present, thumbs,
                   control_vars>>

NextColor == ThumbConvert

SpecColor == InitColor /\ [][NextColor]_vars

\* ------------------------- the pixel-format catalog (pixel_format.rs)

\* enum VideoPixelFormat
VideoPixelFormat == {"Nv12", "P010Le", "P012Le", "P016Le"}

\* the wgpu devices a caller may pass; the catalog ignores the argument
Devices == {"integrated", "discrete"}

\* VideoPixelFormat::bit_depth
bit_depth(format) ==
    CASE format = "Nv12" -> 8
      [] format = "P010Le" -> 10
      [] format = "P012Le" -> 12
      [] format = "P016Le" -> 16

\* VideoPixelFormat::y_texture_format
y_texture_format(format, device) ==
    IF format = "Nv12" THEN "R8Unorm" ELSE "R16Float"

\* VideoPixelFormat::uv_texture_format
uv_texture_format(format, device) ==
    IF format = "Nv12" THEN "Rg8Unorm" ELSE "Rg16Float"

\* mutant: the sample size taken as the whole bytes of the bit depth
whole_bytes_of_depth(format) == bit_depth(format) \div 8

\* VideoPixelFormat::bytes_per_pixel
bytes_per_pixel(format) ==
    IF format = "Nv12" THEN 1 ELSE 2

\* what the four methods return for a tag, on a device
Lookup(format, device) ==
    [format |-> format, device |-> device,
     bit_depth |-> bit_depth(format),
     y_texture_format |-> y_texture_format(format, device),
     uv_texture_format |-> uv_texture_format(format, device),
     bytes_per_pixel |-> bytes_per_pixel(format)]

\* a caller asks the catalog about a tag
CatalogLookup ==
    /\ Len(lookups) < MaxLookups
    /\ \E format \in VideoPixelFormat, device \in Devices :
        lookups' = Append(lookups, Lookup(format, device))
    /\ UNCHANGED <<next_id, alive, upload_frame, video_props, frame, videos, prims,
                   dpc, worker, locks, panicked, gpu_error, written, bound,
                   reclaimed, last, thumb, retry_vars, present, thumbs,
                   control_vars>>

NextCatalog == CatalogLookup

SpecCatalog == Init /\ [][NextCatalog]_vars

\* --------- error recovery (internal.rs, 340-418; video_player.rs, 227-400)

\* mutant: the backoff window does not grow
BackoffSecsFixed(error_count) == 2

\* Duration::from_secs(2u64.pow(self.error_count.min(5)))
BackoffSecs(error_count) == 2 ^ (IF error_count <= 5 THEN error_count ELSE 5)

\* time_since_error < backoff_duration, for the last counted error
InBackoff(i, now) ==
    /\ i.last_error_time # -1
    /\ now - i.last_error_time < BackoffSecs(i.error_count)

\* mutant: the retries are never given up
GivesUpNever(error_count) == FALSE

\* if self.error_count > 5: give up
GivesUp(error_count) == error_count > 5

\* Internal::should_retry_on_error(error) at time now: the value returned and
\* Internal afterwards
ShouldRetryOnError(i, is_network_error, now) ==
    IF ~is_network_error THEN [result |-> FALSE, internal |-> i]
    ELSE IF InBackoff(i, now) THEN [result |-> FALSE, internal |-> i]
    ELSE LET counted == [i EXCEPT !.last_error_time = now, !.error_count = @ + 1]
         IN  [result |-> ~GivesUp(counted.error_count), internal |-> counted]

\* Internal::attempt_reconnect: nothing when is_reconnecting; otherwise the flag
\* is set, the pipeline goes to Ready and back to Playing and seeks, and the
\* flag is cleared again only when none of these failed
AttemptReconnect(i, succeeds) ==
    IF i.is_reconnecting THEN i
    ELSE [i EXCEPT !.is_reconnecting = ~succeeds]

\* Internal::reset_error_state
ResetErrorState(i) ==
    IF i.error_count > 0
    THEN [i EXCEPT !.error_count = 0, !.last_error_time = -1]
    ELSE i

\* a step of the error recovery touches nothing else
RetryStep ==
    UNCHANGED <<next_id, alive, upload_frame, video_props, frame, videos, prims,
                dpc, worker, locks, panicked, gpu_error, written, bound,
                reclaimed, last, thumb, lookups, present, thumbs,
                   control_vars>>

\* time passes
Tick ==
    /\ clock < MaxClock
    /\ update.at \in {"idle", "bus"}
    /\ clock' = clock + 1
    /\ UNCHANGED <<internal, update>>
    /\ RetryStep

\* VideoPlayer::update is called with RedrawRequested for a stream that is
\* neither paused nor at its end
UpdateBegin ==
    /\ update.at = "idle"
    /\ update.attempts < MaxAttempts
    /\ update' = [update EXCEPT !.at = "bus", !.approved = FALSE, !.call = "none"]
    /\ UNCHANGED <<internal, clock>>
    /\ RetryStep

\* the bus hands out an Error message: should_retry_on_error, and
\* is_reconnecting = true when it returns true
UpdateError ==
    /\ update.at = "bus"
    /\ \E is_network_error \in BOOLEAN :
        LET r == ShouldRetryOnError(internal, is_network_error, clock)
        IN  /\ internal' = IF r.result
                           THEN [r.internal EXCEPT !.is_reconnecting = TRUE]
                           ELSE r.internal
            /\ update' = [update EXCEPT
                    !.approved = @ \/ r.result,
                    !.granted = IF r.result THEN @ + 1 ELSE @,
                    !.call = IF r.result THEN "true" ELSE "false",
                    !.network = is_network_error]
    /\ UNCHANGED clock
    /\ RetryStep

\* bus.pop_filtered returns None: the loop over the messages ends
UpdateBusEmpty ==
    /\ update.at = "bus"
    /\ update' = [update EXCEPT !.at = "reconnect", !.call = "none"]
    /\ UNCHANGED <<internal, clock>>
    /\ RetryStep

\* if inner.is_reconnecting { inner.is_reconnecting = false; attempt_reconnect() }
UpdateReconnect ==
    /\ update.at = "reconnect"
    /\ IF internal.is_reconnecting
       THEN /\ \E succeeds \in BOOLEAN :
                internal' = AttemptReconnect(
                    [internal EXCEPT !.is_reconnecting = FALSE], succeeds)
            /\ update' = [update EXCEPT !.at = "frame", !.attempts = @ + 1]
       ELSE /\ update' = [update EXCEPT !.at = "frame"]
            /\ UNCHANGED internal
    /\ UNCHANGED clock
    /\ RetryStep

\* if inner.upload_frame.load(): reset_error_state(); the update returns
UpdateFrame ==
    /\ update.at = "frame"
    /\ \E new_frame \in BOOLEAN :
        IF new_frame
        THEN /\ internal' = ResetErrorState(internal)
             /\ update' = [update EXCEPT !.at = "idle", !.granted = 0, !.attempts = 0]
        ELSE /\ update' = [update EXCEPT !.at = "idle"]
             /\ UNCHANGED internal
    /\ UNCHANGED clock
    /\ RetryStep

NextRetry ==
    \/ Tick
    \/ UpdateBegin
    \/ UpdateError
    \/ UpdateBusEmpty
    \/ UpdateReconnect
    \/ UpdateFrame

SpecRetry == Init /\ [][NextRetry]_vars

\* ------------------------------------------- one video, the whole ring traced

RingOpen == next_id = RingId /\ OpenVideo

\* the widget is drawn once; the host prepares and renders its primitive again
\* and again
RingView == prims = {} /\ \E wrote \in BOOLEAN : WidgetDraw(RingId, wrote)

RingUpload == \E p \in prims : PrimitiveUpload(p)

RingPrepare == PrimitivePrepare(RingId, RingMaxIndex, TRUE)

RingRender == PrimitiveRender(RingId, RingMaxIndex, TRUE)

NextRing ==
    \/ RingOpen
    \/ RingView
    \/ RingUpload
    \/ RingPrepare
    \/ RingRender

SpecRing == Init /\ [][NextRing]_vars

\* ------ end of stream (internal.rs, 191-217; video_player.rs, 238-383)

\* the bus messages update tells apart here: an Eos, an Error for which
\* should_retry_on_error returns true, and any other message
Messages == {"Eos", "Error", "Other"}

\* Internal::is_buffering: false from the constructor on, never assigned
is_buffering == FALSE

\* mutant: set_paused(false) asks for a restart whether or not the stream ended
SetPausedFlagsAlways(v, paused) ==
    [v EXCEPT
        !.state = IF paused THEN "Paused" ELSE "Playing",
        !.restart_stream = IF ~paused THEN TRUE ELSE @]

\* Internal::set_paused(paused)
SetPaused(v, paused) ==
    [v EXCEPT
        !.state = IF ~is_buffering \/ paused
                  THEN (IF paused THEN "Paused" ELSE "Playing")
                  ELSE @,
        !.restart_stream = IF v.is_eos /\ ~paused THEN TRUE ELSE @]

\* Internal::restart_stream(): is_eos = false; set_paused(false); seek(0, false)?
RestartStream(v) == SetPaused([v EXCEPT !.is_eos = FALSE], FALSE)

\* Internal::paused(): the pipeline's state is Paused
Paused(v) == v.state = "Paused"

\* a step of the playback controls touches nothing else
PlaybackStep ==
    UNCHANGED <<session_vars, thread_vars, registry_vars, prims, dpc, last, thumb,
                lookups, retry_vars, present, thumbs, tracks,
                wayland_vars>>

\* the pipeline posts a message on its bus
PlaybackPost ==
    /\ Len(playback.bus) < MaxBus
    /\ \E m \in Messages :
        playback' = [playback EXCEPT !.bus = Append(@, m)]
    /\ PlaybackStep

\* the application calls Video::set_paused
PlaybackSetPaused ==
    /\ playback.at = "idle"
    /\ \E paused \in BOOLEAN :
        playback' = [SetPaused(playback, paused) EXCEPT
                        !.call = IF paused THEN "set_paused(true)"
                                 ELSE "set_paused(false)"]
    /\ PlaybackStep

\* the application calls Video::set_looping
PlaybackSetLooping ==
    /\ playback.at = "idle"
    /\ playback' = [playback EXCEPT !.looping = ~@, !.call = "set_looping"]
    /\ PlaybackStep

\* the application calls Video::restart_stream
PlaybackRestart ==
    /\ playback.at = "idle"
    /\ playback' = [RestartStream(playback) EXCEPT !.call = "restart_stream"]
    /\ PlaybackStep

\* if inner.restart_stream || (!inner.is_eos && !inner.paused())
UpdateRuns(v) == v.restart_stream \/ (~v.is_eos /\ ~Paused(v))

\* VideoPlayer::update for a RedrawRequested that fails the test of line 241
PlaybackUpdateSkip ==
    /\ playback.at = "idle"
    /\ ~UpdateRuns(playback)
    /\ playback' = [playback EXCEPT !.began = FALSE, !.call = "update"]
    /\ PlaybackStep

\* VideoPlayer::update for a RedrawRequested: the restart_stream flag is moved
\* into the local, eos_pause starts false
PlaybackUpdateBegin ==
    /\ playback.at = "idle"
    /\ UpdateRuns(playback)
    /\ playback' = [playback EXCEPT
            !.at = "bus",
            !.restart = playback.restart_stream,
            !.restart_stream = FALSE,
            !.eos_pause = FALSE,
            !.began = TRUE,
            !.flagged = playback.restart_stream,
            !.eos_loop = FALSE, !.eos_stop = FALSE, !.restarted = FALSE,
            !.paused = FALSE, !.reconnected = FALSE]
    /\ PlaybackStep

\* while let Some(msg) = inner.bus.pop_filtered(..): one message is handled
PlaybackUpdatePop ==
    /\ playback.at = "bus"
    /\ playback.bus # << >>
    /\ LET msg == Head(playback.bus)
           v == [playback EXCEPT !.bus = Tail(@)]
       IN  playback' =
            CASE msg = "Eos" /\ v.looping ->
                    [v EXCEPT !.restart = TRUE, !.eos_loop = TRUE, !.fresh = TRUE]
              [] msg = "Eos" /\ ~v.looping ->
                    [v EXCEPT !.eos_pause = TRUE, !.eos_stop = TRUE, !.fresh = TRUE]
              [] msg = "Error" -> [v EXCEPT !.is_reconnecting = TRUE]
              [] OTHER -> v
    /\ PlaybackStep

\* the bus is empty: if restart_stream { inner.restart_stream() } else if
\* eos_pause { inner.is_eos = true; inner.set_paused(true) }
PlaybackUpdateTail ==
    /\ playback.at = "bus"
    /\ playback.bus = << >>
    /\ playback' =
        IF playback.restart
        THEN [RestartStream(playback) EXCEPT
                !.at = "reconnect", !.restarted = TRUE, !.fresh = FALSE]
        ELSE IF playback.eos_pause
        THEN [SetPaused([playback EXCEPT !.is_eos = TRUE], TRUE) EXCEPT
                !.at = "reconnect", !.paused = TRUE]
        ELSE [playback EXCEPT !.at = "reconnect"]
    /\ PlaybackStep

\* what attempt_reconnect leaves: set_state(Ready)? failed, set_state(Playing)?
\* failed, or both went through (internal.rs, 380-409)
Reconnected(v, outcome) ==
    CASE outcome = "ready_failed" -> [v EXCEPT !.is_reconnecting = TRUE]
      [] outcome = "playing_failed" ->
            [v EXCEPT !.is_reconnecting = TRUE, !.state = "Ready"]
      [] outcome = "ok" -> [v EXCEPT !.is_reconnecting = FALSE, !.state = "Playing"]

\* if inner.is_reconnecting { inner.is_reconnecting = false;
\* inner.attempt_reconnect() }, and the update returns
PlaybackUpdateReconnect ==
    /\ playback.at = "reconnect"
    /\ IF playback.is_reconnecting
       THEN \E outcome \in {"ready_failed", "playing_failed", "ok"} :
                playback' = [Reconnected(playback, outcome) EXCEPT
                                !.at = "idle", !.reconnected = TRUE,
                                !.call = "update"]
       ELSE playback' = [playback EXCEPT !.at = "idle", !.call = "update"]
    /\ PlaybackStep

NextPlayback ==
    \/ PlaybackPost
    \/ PlaybackSetPaused
    \/ PlaybackSetLooping
    \/ PlaybackRestart
    \/ PlaybackUpdateSkip
    \/ PlaybackUpdateBegin
    \/ PlaybackUpdatePop
    \/ PlaybackUpdateTail
    \/ PlaybackUpdateReconnect

SpecPlayback == Init /\ [][NextPlayback]_vars

\* ------------- track selection of the appsink backend (internal.rs, 435-812)

\* gst::StreamType of the streams told apart
Kinds == {"VIDEO", "AUDIO", "TEXT"}

\* a collection of one video stream, then audio streams, then text streams;
\* flagged: the first stream of each kind carries StreamFlags::SELECT
CollectionOf(audio, text, flagged) ==
    [i \in 1 .. (1 + audio + text) |->
        [kind |-> IF i = 1 THEN "VIDEO"
                  ELSE IF i <= 1 + audio THEN "AUDIO" ELSE "TEXT",
         select |-> flagged /\ i \in {1, 2, 2 + audio}]]

\* the stream collections playbin3 may announce
Collections ==
    {CollectionOf(audio, text, flagged) :
        audio \in 0 .. MaxTracks, text \in 0 .. MaxTracks, flagged \in BOOLEAN}

\* the streams of one kind, by their place in the collection
Positions(c, kind) ==
    SelectSeq([i \in 1 .. Len(c) |-> i], LAMBDA i : c[i].kind = kind)

\* the track_index-th stream of the list, when there is one
Nth(list, track_index) ==
    IF track_index >= 0 /\ track_index < Len(list)
    THEN <<list[track_index + 1]>>
    ELSE << >>

Range(list) == {list[i] : i \in 1 .. Len(list)}

\* the video streams of the collection that were selected before
VideoKept(v) ==
    SelectSeq(Positions(v.stream_collection, "VIDEO"),
              LAMBDA i : i \in Range(v.selected_stream_ids))

\* current_subtitle_track, current_audio_track, subtitles_enabled and
\* selected_stream_ids
Selection(v) ==
    <<v.current_subtitle_track, v.current_audio_track, v.subtitles_enabled,
      v.selected_stream_ids>>

\* Internal::send_stream_selection: nothing is sent for an empty selection;
\* send_ok is what source.send_event returns
SendStreamSelection(v, send_ok) ==
    IF v.selected_stream_ids = << >> \/ send_ok THEN "Ok" ELSE "Err"

\* the log line of an invalid index evaluates len() - 1 on a usize: with no
\* track of the kind a build with overflow checks panics there, the others
\* return the error
InvalidIndex(len) == IF len = 0 THEN {"Err", "panic"} ELSE {"Err"}

\* Internal::select_subtitle_track(track_index): the fields it leaves and what
\* it returns; some = FALSE stands for None
SelectSubtitleTrack(v, some, index, send_ok) ==
    IF ~v.has_collection
    THEN {[v EXCEPT !.call.result = "Err"]}
    ELSE LET new_selection ==
                VideoKept(v) \o Nth(Positions(v.stream_collection, "AUDIO"),
                                    v.current_audio_track)
         IN  IF some /\ (index < 0 \/ index >= v.available_subtitles)
             THEN {[v EXCEPT !.call.result = r] :
                        r \in InvalidIndex(v.available_subtitles)}
             ELSE LET w == IF some
                           THEN [v EXCEPT
                                    !.current_subtitle_track = index,
                                    !.subtitles_enabled = TRUE,
                                    !.selected_stream_ids = new_selection \o
                                        Nth(Positions(v.stream_collection, "TEXT"),
                                            index)]
                           ELSE [v EXCEPT
                                    !.current_subtitle_track = NoTrack,
                                    !.subtitles_enabled = FALSE,
                                    !.selected_stream_ids = new_selection]
                  IN  {[w EXCEPT !.call.result = SendStreamSelection(w, send_ok)]}

\* Internal::select_audio_track(track_index)
SelectAudioTrack(v, track_index, send_ok) ==
    IF ~v.has_collection
    THEN {[v EXCEPT !.call.result = "Err"]}
    ELSE IF track_index < 0 \/ track_index >= v.available_audio_tracks
    THEN {[v EXCEPT !.call.result = r] : r \in InvalidIndex(v.available_audio_tracks)}
    ELSE LET subtitle == IF v.subtitles_enabled /\ v.current_subtitle_track # NoTrack
                         THEN Nth(Positions(v.stream_collection, "TEXT"),
                                  v.current_subtitle_track)
                         ELSE << >>
             w == [v EXCEPT
                    !.current_audio_track = track_index,
                    !.selected_stream_ids =
                        VideoKept(v) \o Nth(Positions(v.stream_collection, "AUDIO"),
                                            track_index) \o subtitle]
         IN  {[w EXCEPT !.call.result = SendStreamSelection(w, send_ok)]}

\* Internal::set_subtitles_enabled(enabled): the errors of
\* select_subtitle_track are logged, a panic of it goes through
SetSubtitlesEnabled(v, enabled, send_ok) ==
    LET w == [v EXCEPT !.subtitles_enabled = enabled]
        Logged(x) == [x EXCEPT !.call.result =
                            IF x.call.result = "panic" THEN "panic" ELSE "Ok"]
    IN  IF enabled
        THEN IF w.current_subtitle_track # NoTrack
             THEN {Logged(x) : x \in SelectSubtitleTrack(
                        w, TRUE, w.current_subtitle_track, send_ok)}
             ELSE {[w EXCEPT !.call.result = "Ok"]}
        ELSE {Logged(x) : x \in SelectSubtitleTrack(w, FALSE, 0, send_ok)}

\* the last stream of a kind that is flagged SELECT, counted among its kind
LastSelected(c, kind, otherwise) ==
    LET list == Positions(c, kind)
        flagged == {n \in 1 .. Len(list) : c[list[n]].select}
    IN  IF flagged = {} THEN otherwise
        ELSE (CHOOSE n \in flagged : \A m \in flagged : m <= n) - 1

\* Internal::update_stream_collection(collection)
UpdateStreamCollection(v, c) ==
    [v EXCEPT
        !.has_collection = TRUE,
        !.stream_collection = c,
        !.available_audio_tracks = Len(Positions(c, "AUDIO")),
        !.available_subtitles = Len(Positions(c, "TEXT")),
        !.selected_stream_ids =
            SelectSeq([i \in 1 .. Len(c) |-> i], LAMBDA i : c[i].select),
        !.current_audio_track = LastSelected(c, "AUDIO", @),
        !.current_subtitle_track = LastSelected(c, "TEXT", @),
        !.subtitles_enabled =
            IF \E i \in 1 .. Len(c) : c[i].kind = "TEXT" /\ c[i].select
            THEN TRUE ELSE @]

\* a call on the tracks touches nothing else
TracksStep ==
    UNCHANGED <<session_vars, thread_vars, registry_vars, prims, dpc, last, thumb,
                lookups, retry_vars, present, thumbs, playback,
                wayland_vars>>

\* the call is recorded with the selection it found
Called(v, op) ==
    [v EXCEPT !.call = [op |-> op, result |-> "none"], !.before = Selection(v),
              !.round = "none", !.saved = NewTracks.saved]

\* update handles a StreamCollection message: update_stream_collection, then
\* send_stream_selection, whose error is logged (video_player.rs, 344-355)
TracksCollection ==
    /\ \E c \in Collections :
        tracks' = [UpdateStreamCollection(Called(tracks, "update_stream_collection"), c)
                        EXCEPT !.call.result = "Ok"]
    /\ TracksStep

TracksSelectSubtitle ==
    /\ \E some, send_ok \in BOOLEAN, index \in -1 .. MaxTracks :
        /\ ~some => index = 0
        /\ tracks' \in SelectSubtitleTrack(
                Called(tracks, "select_subtitle_track"), some, index, send_ok)
    /\ TracksStep

TracksSelectAudio ==
    /\ \E send_ok \in BOOLEAN, track_index \in -1 .. MaxTracks :
        tracks' \in SelectAudioTrack(
            Called(tracks, "select_audio_track"), track_index, send_ok)
    /\ TracksStep

\* set_subtitles_enabled(false)
TracksDisableSubtitles ==
    /\ \E send_ok \in BOOLEAN :
        \E w \in SetSubtitlesEnabled(
                    Called(tracks, "set_subtitles_enabled"), FALSE, send_ok) :
            tracks' = [w EXCEPT !.round = "disabled", !.saved = Selection(tracks)]
    /\ TracksStep

\* set_subtitles_enabled(true)
TracksEnableSubtitles ==
    /\ \E send_ok \in BOOLEAN :
        \E w \in SetSubtitlesEnabled(
                    Called(tracks, "set_subtitles_enabled"), TRUE, send_ok) :
            tracks' = [w EXCEPT !.round = IF tracks.round = "disabled"
                                          THEN "enabled" ELSE "none",
                                !.saved = tracks.saved]
    /\ TracksStep

NextTracks ==
    \/ TracksCollection
    \/ TracksSelectSubtitle
    \/ TracksSelectAudio
    \/ TracksDisableSubtitles
    \/ TracksEnableSubtitles

SpecTracks == Init /\ [][NextTracks]_vars

\* ------ track selection of the Wayland backend (subwave_wayland/src/video.rs)

\* a collection of video streams, then audio streams, then text streams; the
\* raw-th text stream has caps text/x-raw (none when raw = 0)
StreamsOf(video, audio, text, raw) ==
    [i \in 1 .. (video + audio + text) |->
        [kind |-> IF i <= video THEN "VIDEO"
                  ELSE IF i <= video + audio THEN "AUDIO" ELSE "TEXT",
         raw |-> raw > 0 /\ i = video + audio + raw]]

\* the stream collections playbin3 may post on the bus
StreamCollections ==
    {StreamsOf(q[1], q[2], q[3], q[4]) :
        q \in {r \in (0 .. 1) \X (0 .. MaxTracks) \X (0 .. MaxTracks)
                        \X (0 .. MaxTracks) : r[4] <= r[3]}}

\* the first element of a list, when there is one
First(list) == IF list = << >> THEN << >> ELSE <<Head(list)>>

\* the StreamCollection closure of the bus thread, applied by tick: the
\* index-to-id tables, and the initial selection of the first video stream,
\* the first audio stream and the first text/x-raw stream (the first text
\* stream when none is raw)
ApplyStreamCollection(v, c) ==
    LET audio_ids == Positions(c, "AUDIO")
        subtitle_ids == Positions(c, "TEXT")
        best_text_id == First(SelectSeq(subtitle_ids, LAMBDA i : c[i].raw))
        chosen_text == IF best_text_id # << >> THEN best_text_id
                       ELSE First(subtitle_ids)
        subtitles_enabled == chosen_text # << >>
    IN  [v EXCEPT
            !.audio_index_to_stream_id = audio_ids,
            !.subtitle_index_to_stream_id = subtitle_ids,
            !.selected_stream_ids =
                First(Positions(c, "VIDEO")) \o First(audio_ids) \o chosen_text,
            !.current_audio_track = IF audio_ids = << >> THEN -1 ELSE 0,
            !.current_subtitle_track = IF subtitles_enabled THEN 0 ELSE NoTrack,
            !.subtitles_enabled = subtitles_enabled]

\* ids.retain(|id| !table.iter().any(|x| x == id))
Retain(ids, table) == SelectSeq(ids, LAMBDA id : id \notin Range(table))

RECURSIVE DedupFrom(_, _)
DedupFrom(v, seen) ==
    IF v = << >> THEN << >>
    ELSE IF Head(v) \in seen THEN DedupFrom(Tail(v), seen)
    ELSE <<Head(v)>> \o DedupFrom(Tail(v), seen \cup {Head(v)})

\* dedup_in_place: the first occurrence of every id, in order
dedup_in_place(v) == DedupFrom(v, {})

\* SubsurfaceVideo::select_audio_track(index); ok is what send_select_streams
\* returns
SubsurfaceSelectAudioTrack(v, index, ok) ==
    IF index < 0 \/ index >= Len(v.audio_index_to_stream_id)
    THEN [v EXCEPT !.call.result = "Err"]
    ELSE IF ~v.pipeline
    THEN [v EXCEPT !.call.result = "Err"]
    ELSE LET new_ids == dedup_in_place(
                Retain(v.selected_stream_ids, v.audio_index_to_stream_id)
                    \o <<v.audio_index_to_stream_id[index + 1]>>)
         IN  IF ok
             THEN [v EXCEPT !.selected_stream_ids = new_ids,
                            !.current_audio_track = index,
                            !.call.result = "Ok"]
             ELSE [v EXCEPT !.call.result = "Err"]

\* SubsurfaceVideo::select_subtitle_track(index); some = FALSE stands for None
SubsurfaceSelectSubtitleTrack(v, some, index, ok) ==
    IF ~v.pipeline
    THEN [v EXCEPT !.call.result = "Err"]
    ELSE IF some /\ (index < 0 \/ index >= Len(v.subtitle_index_to_stream_id))
    THEN [v EXCEPT !.call.result = "Err"]
    ELSE LET new_ids == dedup_in_place(
                Retain(v.selected_stream_ids, v.subtitle_index_to_stream_id)
                    \o (IF some THEN <<v.subtitle_index_to_stream_id[index + 1]>>
                        ELSE << >>))
         IN  IF ok
             THEN [v EXCEPT !.selected_stream_ids = new_ids,
                            !.current_subtitle_track =
                                IF some THEN index ELSE NoTrack,
                            !.subtitles_enabled = some,
                            !.call.result = "Ok"]
             ELSE [v EXCEPT !.call.result = "Err"]

\* SubsurfaceVideo::set_subtitles_enabled(enabled)
SubsurfaceSetSubtitlesEnabled(v, enabled, ok) ==
    IF enabled = v.subtitles_enabled
    THEN [v EXCEPT !.call.result = "Ok"]
    ELSE IF enabled
    THEN IF v.current_subtitle_track # NoTrack
         THEN SubsurfaceSelectSubtitleTrack(v, TRUE, v.current_subtitle_track, ok)
         ELSE IF v.subtitle_index_to_stream_id # << >>
         THEN SubsurfaceSelectSubtitleTrack(v, TRUE, 0, ok)
         ELSE [v EXCEPT !.call.result = "Ok"]
    ELSE SubsurfaceSelectSubtitleTrack(v, FALSE, 0, ok)

\* a call on the Wayland backend's tracks touches nothing else
StreamsStep ==
    UNCHANGED <<session_vars, thread_vars, registry_vars, prims, dpc, last, thumb,
                lookups, retry_vars, present, thumbs, playback, tracks,
                bus_thread, pending, subsurface>>

StreamsCalled(v, op) == [v EXCEPT !.call = [op |-> op, result |-> "none"]]

\* init_wayland stores the pipeline and starts the bus thread
StreamsInitWayland ==
    /\ ~streams.pipeline
    /\ streams' = [StreamsCalled(streams, "init_wayland") EXCEPT
                        !.pipeline = TRUE, !.call.result = "Ok"]
    /\ StreamsStep

\* tick applies the closure the bus thread sent for a StreamCollection message
StreamsCollection ==
    /\ streams.pipeline
    /\ \E c \in StreamCollections :
        streams' = [ApplyStreamCollection(
                        StreamsCalled(streams, "stream_collection"), c)
                            EXCEPT !.call.result = "Ok"]
    /\ StreamsStep

StreamsSelectAudio ==
    /\ \E ok \in BOOLEAN, index \in -1 .. MaxTracks :
        streams' = SubsurfaceSelectAudioTrack(
                        StreamsCalled(streams, "select_audio_track"), index, ok)
    /\ StreamsStep

StreamsSelectSubtitle ==
    /\ \E some, ok \in BOOLEAN, index \in -1 .. MaxTracks :
        /\ ~some => index = 0
        /\ streams' = SubsurfaceSelectSubtitleTrack(
                        StreamsCalled(streams, "select_subtitle_track"),
                        some, index, ok)
    /\ StreamsStep

StreamsSetSubtitlesEnabled ==
    /\ \E enabled, ok \in BOOLEAN :
        streams' = SubsurfaceSetSubtitlesEnabled(
                        StreamsCalled(streams, "set_subtitles_enabled"), enabled, ok)
    /\ StreamsStep

NextStreams ==
    \/ StreamsInitWayland
    \/ StreamsCollection
    \/ StreamsSelectAudio
    \/ StreamsSelectSubtitle
    \/ StreamsSetSubtitlesEnabled

SpecStreams == Init /\ [][NextStreams]_vars

\* bounds -- the messages the bus thread handles
MaxMessages == 4

\* ------ the bus thread of the Wayland backend (subwave_wayland/src/video.rs)

\* the initial selections a StreamCollection message stages
InitialIds ==
    {ApplyStreamCollection(NewStreams, c).selected_stream_ids :
        c \in StreamCollections}

\* gst::State
States == {"Null", "Ready", "Paused", "Playing"}

\* the messages told apart: a StreamCollection with its initial selection, a
\* StateChanged with its current state and whether its source is the
\* pipeline, AsyncDone, and any other
BusMessages ==
    {[kind |-> "StreamCollection", initial_ids |-> ids] : ids \in InitialIds}
    \cup {[kind |-> "StateChanged", pipeline |-> p, current |-> cur] :
                p \in BOOLEAN, cur \in States}
    \cup {[kind |-> "AsyncDone"], [kind |-> "Other"]}

\* send_select_streams_preferring_pipeline(pipeline, desired_select_ids), run
\* when the guard holds; ok is what pipeline.send_event returns
SendSelect(b, guard, ok) ==
    IF guard /\ b.staged
    THEN [b EXCEPT !.attempts = @ + 1,
                   !.sent = IF ok THEN @ + 1 ELSE @,
                   !.event = b.desired_select_ids,
                   !.did_send_select = ok]
    ELSE b

\* the StateChanged arm that takes every state change for the pipeline's
\* reaching Paused
StateChangedAlways(b, m, ok) ==
    LET r == [b EXCEPT !.pipeline_ready = TRUE]
    IN  SendSelect(r, ~r.did_send_select, ok)

\* MessageView::StreamCollection: the selection is staged and sent when ready
StreamCollection(b, m, ok) ==
    LET r == [b EXCEPT !.staged = TRUE, !.desired_select_ids = m.initial_ids,
                       !.collected = TRUE]
    IN  SendSelect(r, r.pipeline_ready /\ ~r.did_send_select, ok)

\* MessageView::StateChanged
StateChanged(b, m, ok) ==
    IF m.pipeline /\ m.current \in {"Paused", "Playing"}
    THEN LET r == [b EXCEPT !.pipeline_ready = TRUE, !.reached = TRUE]
         IN  SendSelect(r, ~r.did_send_select, ok)
    ELSE b

\* MessageView::AsyncDone
AsyncDone(b, m, ok) == SendSelect(b, b.pipeline_ready /\ ~b.did_send_select, ok)

\* a step of the bus thread touches nothing else
BusStep ==
    UNCHANGED <<session_vars, thread_vars, registry_vars, prims, dpc, last, thumb,
                lookups, retry_vars, present, thumbs, playback, tracks, streams,
                pending, subsurface>>

\* bus.timed_pop returned the message
Popped(b, m) == [b EXCEPT !.handled = @ + 1, !.message = m]

BusRuns == ~bus_thread.stop /\ bus_thread.handled < MaxMessages

BusStreamCollection ==
    /\ BusRuns
    /\ \E ok \in BOOLEAN, m \in BusMessages :
        /\ m.kind = "StreamCollection"
        /\ bus_thread' = StreamCollection(Popped(bus_thread, m), m, ok)
    /\ BusStep

BusStateChanged ==
    /\ BusRuns
    /\ \E ok \in BOOLEAN, m \in BusMessages :
        /\ m.kind = "StateChanged"
        /\ bus_thread' = StateChanged(Popped(bus_thread, m), m, ok)
    /\ BusStep

BusAsyncDone ==
    /\ BusRuns
    /\ \E ok \in BOOLEAN :
        bus_thread' = AsyncDone(Popped(bus_thread, [kind |-> "AsyncDone"]),
                                [kind |-> "AsyncDone"], ok)
    /\ BusStep

\* any other message leaves the three locals alone
BusOther ==
    /\ BusRuns
    /\ bus_thread' = Popped(bus_thread, [kind |-> "Other"])
    /\ BusStep

\* stop or drop sets bus_stop: the loop ends
BusStop ==
    /\ ~bus_thread.stop
    /\ bus_thread' = [bus_thread EXCEPT !.stop = TRUE]
    /\ BusStep

NextBus ==
    \/ BusStreamCollection
    \/ BusStateChanged
    \/ BusAsyncDone
    \/ BusOther
    \/ BusStop

SpecBus == Init /\ [][NextBus]_vars

\* bounds -- the PendingStates queued and the ticks run
MaxQueued == 2
MaxTicks == 4

\* ------ the pending state of the Wayland backend (subwave_wayland/src/video.rs)

\* a tick that forgets the state it took
RequeueDrops(p, st) == p

\* w.pending_state = Some(st) of tick
Requeue(p, st) == [p EXCEPT !.pending_state = st]

\* a step on the pending state touches nothing else
PendingStep ==
    UNCHANGED <<session_vars, thread_vars, registry_vars, prims, dpc, last, thumb,
                lookups, retry_vars, present, thumbs, playback, tracks, streams,
                bus_thread, subsurface>>

\* queue_pending_state(st): tick borrows the video mutably, so no call of it
\* falls inside a tick
QueuePendingState ==
    /\ pending.at = "idle"
    /\ pending.queued < MaxQueued
    /\ pending' = [pending EXCEPT !.queued = @ + 1,
                                  !.pending_state = pending.queued + 1]
    /\ PendingStep

\* init_wayland stores the pipeline
PendingInitWayland ==
    /\ pending.at = "idle"
    /\ ~pending.pipeline
    /\ pending' = [pending EXCEPT !.pipeline = TRUE]
    /\ PendingStep

\* tick, first part: under the write lock, w.pending_state.take()
TickTake ==
    /\ pending.at = "idle"
    /\ pending.ticks < MaxTicks
    /\ pending' = [pending EXCEPT !.ticks = @ + 1, !.at = "taken",
                                  !.st = pending.pending_state,
                                  !.pending_state = 0]
    /\ PendingStep

\* tick, second part, with nothing taken
TickNone ==
    /\ pending.at = "taken"
    /\ pending.st = 0
    /\ pending' = [pending EXCEPT !.at = "idle"]
    /\ PendingStep

\* tick, second part, without a pipeline: the state is put back
TickNoPipeline ==
    /\ pending.at = "taken"
    /\ pending.st # 0
    /\ ~pending.pipeline
    /\ pending' = [Requeue(pending, pending.st) EXCEPT
                        !.at = "idle", !.st = 0, !.no_pipeline = TRUE]
    /\ PendingStep

\* tick, second part: apply_state_now fails at the seek, the state is put back
TickSeekFails ==
    /\ pending.at = "taken"
    /\ pending.st # 0
    /\ pending.pipeline
    /\ pending' = [Requeue(pending, pending.st) EXCEPT
                        !.at = "idle", !.st = 0, !.partial = @ + 1]
    /\ PendingStep

\* tick, second part: apply_state_now returns Ok
TickApplied ==
    /\ pending.at = "taken"
    /\ pending.st # 0
    /\ pending.pipeline
    /\ pending' = [pending EXCEPT !.at = "idle", !.st = 0,
                                  !.applied = Append(@, pending.st)]
    /\ PendingStep

NextPending ==
    \/ QueuePendingState
    \/ PendingInitWayland
    \/ TickTake
    \/ TickNone
    \/ TickNoPipeline
    \/ TickSeekFails
    \/ TickApplied

SpecPending == Init /\ [][NextPending]_vars

\* bounds -- the setter calls made and the pre-commit hook runs
MaxSets == 3
MaxHooks == 3

\* ---- the subsurface geometry of the Wayland backend (subsurface_manager.rs)

\* the positions, sizes and source rectangles the setters are called with
SetPositions == {<<0, 0>>, <<1, 1>>}
SetSizes == {<<1, 1>>, <<2, 2>>}
SetSources == {<<0, 0, 2, 2>>, <<1, 1, 2, 2>>}

Max(a, b) == IF a >= b THEN a ELSE b

\* the source rectangle the hook hands to vp.set_source: every component
\* through max(1)
SourceOf(r) == <<Max(r[1], 1), Max(r[2], 1), Max(r[3], 1), Max(r[4], 1)>>

\* a step on the subsurface manager touches nothing else
SubsurfaceStep ==
    UNCHANGED <<session_vars, thread_vars, registry_vars, prims, dpc, last, thumb,
                lookups, retry_vars, present, thumbs, playback, tracks, streams,
                bus_thread, pending>>

SetterIdle == subsurface.setter.at = "idle" /\ subsurface.sets < MaxSets

\* set_position(x, y): the stored position is read; an equal one ends the call
SetPositionRead ==
    /\ SetterIdle
    /\ \E value \in SetPositions :
        subsurface' = [subsurface EXCEPT
            !.sets = @ + 1,
            !.setter = IF subsurface.position = value
                       THEN [at |-> "idle", op |-> "set_position", value |-> value]
                       ELSE [at |-> "write", op |-> "set_position", value |-> value]]
    /\ SubsurfaceStep

\* set_position: *self.position.lock() = (x, y)
SetPositionWrite ==
    /\ subsurface.setter.at = "write"
    /\ subsurface' = [subsurface EXCEPT !.position = subsurface.setter.value,
                                        !.setter.at = "store"]
    /\ SubsurfaceStep

\* set_size(w, h): *self.size.lock() = (w, h)
SetSizeWrite ==
    /\ SetterIdle
    /\ \E value \in SetSizes :
        subsurface' = [subsurface EXCEPT
            !.sets = @ + 1, !.size = value,
            !.setter = [at |-> "store", op |-> "set_size", value |-> value]]
    /\ SubsurfaceStep

\* set_source_size((x, y, w, h)): *self.source_size.lock() = (x, y, w, h)
SetSourceSizeWrite ==
    /\ SetterIdle
    /\ \E value \in SetSources :
        subsurface' = [subsurface EXCEPT
            !.sets = @ + 1, !.source_size = value,
            !.setter = [at |-> "store", op |-> "set_source_size", value |-> value]]
    /\ SubsurfaceStep

\* the setters' needs_update.store(true), after which they return
SetterStore ==
    /\ subsurface.setter.at = "store"
    /\ subsurface' = [subsurface EXCEPT !.needs_update = TRUE,
                                        !.setter.at = "idle"]
    /\ SubsurfaceStep

\* trigger_pre_commit_hooks runs the hook: needs_update.swap(false); a false
\* flag ends the run
HookSwap ==
    /\ subsurface.hook.at = "idle"
    /\ subsurface.runs < MaxHooks
    /\ subsurface' = [subsurface EXCEPT
            !.runs = @ + 1,
            !.needs_update = FALSE,
            !.issued = FALSE,
            !.hook.swapped = subsurface.needs_update,
            !.hook.at = IF subsurface.needs_update THEN "position" ELSE "idle"]
    /\ SubsurfaceStep

\* the hook: let (x, y) = *position.lock()
HookPosition ==
    /\ subsurface.hook.at = "position"
    /\ subsurface' = [subsurface EXCEPT !.hook.position = subsurface.position,
                                        !.hook.at = "size"]
    /\ SubsurfaceStep

\* the hook: let (dest_w, dest_h) = *size.lock()
HookSize ==
    /\ subsurface.hook.at = "size"
    /\ subsurface' = [subsurface EXCEPT !.hook.size = subsurface.size,
                                        !.hook.at = "place"]
    /\ SubsurfaceStep

\* the hook: set_position on the three subsurfaces, set_destination on their
\* viewports
HookPlace ==
    /\ subsurface.hook.at = "place"
    /\ subsurface' = [subsurface EXCEPT
            !.surfaces.position = subsurface.hook.position,
            !.surfaces.destination =
                IF subsurface.viewport THEN subsurface.hook.size ELSE @,
            !.issued = TRUE,
            !.hook.at = IF subsurface.viewport THEN "source" ELSE "idle"]
    /\ SubsurfaceStep

\* the hook: let (x, y, w, h) = *source_size.lock(); vp.set_source(...)
HookSource ==
    /\ subsurface.hook.at = "source"
    /\ subsurface' = [subsurface EXCEPT
            !.surfaces.source = SourceOf(subsurface.source_size),
            !.hook.at = "idle"]
    /\ SubsurfaceStep

NextSubsurface ==
    \/ SetPositionRead
    \/ SetPositionWrite
    \/ SetSizeWrite
    \/ SetSourceSizeWrite
    \/ SetterStore
    \/ HookSwap
    \/ HookPosition
    \/ HookSize
    \/ HookPlace
    \/ HookSource

SpecSubsurface == Init /\ [][NextSubsurface]_vars

\* ------------------------------------------------------------------ claims

\* slot of the instance buffer a byte offset addresses
Slot(offset) == offset \div UniformsSize

Min(a, b) == IF a <= b THEN a ELSE b

\* the offsets of a log, as a set
Offsets(log) == {log[i] : i \in 1 .. Len(log)}

\* C1: in-order slot binding. After a run of k <= 256 prepare calls for an id,
\* the i-th of the following draw calls (i <= k) binds slot i-1, inside the
\* buffer, which is the slot the i-th prepare wrote, and those draws bind
\* pairwise distinct slots.
C1_InOrderSlotBinding ==
    \A id \in DOMAIN videos :
        LET w == written[id]
            b == bound[id]
            n == Min(Len(b), Len(w))
        IN  Len(w) <= Capacity =>
                /\ \A i \in 1 .. n :
                    /\ Slot(b[i]) = i - 1
                    /\ b[i] = w[i]
                    /\ b[i] + UniformsSize <= InstancesSize
                /\ Cardinality({Slot(b[i]) : i \in 1 .. n}) = n

\* 256 prepare calls have been followed by 256 draw calls
C1_Witness ==
    /\ RingId \in DOMAIN videos
    /\ Len(written[RingId]) = Capacity
    /\ Len(bound[RingId]) = Capacity

\* C2: reclamation. A prepare call that returns leaves no entry whose liveness
\* flag is cleared, whichever id it was called for; a draw for an id whose entry
\* was reclaimed finds no entry, binds nothing and changes no index.
C2_Reclamation ==
    /\ (last.op = "prepare" /\ last.outcome # "panic") =>
            \A id \in DOMAIN videos : alive[id]
    /\ (last.op = "draw" /\ last.id \in reclaimed) =>
            /\ last.outcome = "absent"
            /\ last.offset = -1
            /\ last.id \notin DOMAIN videos

\* a draw was called for an id after a prepare for another id reclaimed its entry
C2_Witness ==
    /\ last.op = "draw"
    /\ last.id \in reclaimed
    /\ DOMAIN videos # {}

\* C3: removal only by the sweep. An entry leaves the map only in a step that
\* is a prepare call, and only if its liveness flag was false at that call.
C3_RemovalOnlyBySweep ==
    [][\A id \in DOMAIN videos :
          id \notin DOMAIN videos' => (last'.op = "prepare" /\ ~alive[id])]_vars

\* a prepare call has just removed an entry, while keeping another one
C3_Witness ==
    /\ last.op = "prepare"
    /\ last.keys \ DOMAIN videos # {}
    /\ DOMAIN videos # {}

\* C4: idempotence of cleanup. A prepare call made while every entry's liveness
\* flag is true leaves the key set of the map as it was.
C4_CleanupIdempotent ==
    (last.op = "prepare" /\ \A id \in last.keys : alive[id]) =>
        DOMAIN videos = last.keys

\* prepare was called for an id without entry while the map held a live entry
C4_Witness ==
    /\ last.op = "prepare"
    /\ last.keys # {}
    /\ \A id \in last.keys : alive[id]
    /\ last.id \notin last.keys

\* C5 as stated: no entry exists for an id whose entry has been reclaimed.
C5_NoReclaimedToLive == reclaimed \cap DOMAIN videos = {}

\* C5 amended: an entry that upload creates again for a reclaimed id is gone
\* when the adapter's prepare returns: whenever the drawing context is outside
\* VideoPrimitive::prepare, no reclaimed id has an entry.
C5_ReclaimedGoneOnReturn ==
    dpc = Idle => reclaimed \cap DOMAIN videos = {}

\* the adapter's prepare has returned after its upload created an entry again
\* for a reclaimed id
C5_Witness ==
    /\ dpc = Idle
    /\ last.op = "prepare"
    /\ last.id \in last.keys
    /\ last.id \in reclaimed
    /\ last.id \in last.dead

\* C6 as stated: the first prepare for a previously unseen id whose liveness
\* flag is true on return leaves an entry for it in the map.
C6_PrepareCreates ==
    (last.op = "prepare" /\ last.id \notin last.keys /\ last.id \in Opened
        /\ alive[last.id]) => last.id \in DOMAIN videos

\* C6 amended: the first upload for an id without entry creates the entry with
\* both counters 0; a prepare for an id without entry creates none.
C6_OnlyUploadCreates ==
    /\ (last.op = "upload" /\ last.id \notin last.keys) =>
            /\ DOMAIN videos = last.keys \cup {last.id}
            /\ videos[last.id].prepare_index = 0
            /\ videos[last.id].render_index = 0
    /\ (last.op = "prepare" /\ last.id \notin last.keys) =>
            last.id \notin DOMAIN videos

\* an upload has just created the entry of a live video
C6_Witness ==
    /\ last.op = "upload"
    /\ last.id \notin last.keys
    /\ alive[last.id]

\* C7 as stated: the i-th prepare of a run writes at slot (i-1) mod 256, inside
\* the instance buffer, so that the 257th lands on slot 0.
C7_RingWrapOnPrepare ==
    (last.op = "prepare" /\ last.offset >= 0) =>
        /\ last.offset + UniformsSize <= InstancesSize
        /\ last.id \in DOMAIN written =>
            \A i \in 1 .. Len(written[last.id]) :
                Slot(written[last.id][i]) = (i - 1) % Capacity

\* C8 as stated: every offset a draw binds lies inside the instance buffer, at a
\* slot in 0..255.
C8_DrawInsideBuffer ==
    (last.op = "draw" /\ last.offset >= 0) =>
        /\ Slot(last.offset) \in 0 .. (Capacity - 1)
        /\ last.offset + UniformsSize <= InstancesSize

\* C9 as stated: the draws of a run of two or more all bind one slot, the last
\* one the preceding prepare wrote.
C9_DrawReplay ==
    \A id \in DOMAIN videos :
        LET w == written[id]
            b == bound[id]
        IN  (Len(b) >= 2 /\ Len(w) >= 1) =>
                \A i \in 1 .. Len(b) : b[i] = w[Len(w)]

\* C9 amended: the j-th draw of a run binds the offset (j-1) * 256, so the draws
\* of a run bind pairwise different offsets, and a draw beyond the number of
\* prepare calls of the preceding run binds a slot that run did not write.
C9_DrawAdvances ==
    \A id \in DOMAIN videos :
        LET w == written[id]
            b == bound[id]
            ws == Offsets(w)
        IN  \A j \in 1 .. Len(b) :
                /\ b[j] = (j - 1) * UniformsSize
                /\ j > Len(w) => b[j] \notin ws

\* two draws have followed one prepare
C9_Witness ==
    /\ RingId \in DOMAIN videos
    /\ Len(written[RingId]) = 1
    /\ Len(bound[RingId]) = 2

\* the worker thread of video id has work left and none of its steps can be taken
WorkerBlocked(id) ==
    /\ ~panicked
    /\ worker[id].pc # "exited"
    /\ ~ENABLED WorkerStep(id)

\* C10, as stated (its last clause): the only wait the decode worker can incur
\* is for the frame mutex, that is, whenever the worker cannot take a step it
\* stands at a frame_ref.lock() and the frame mutex is held by the UI thread.
C10_OnlyFrameMutexWait ==
    \A id \in Opened :
        WorkerBlocked(id) =>
            /\ worker[id].pc \in {"frame_wait", "caps_props"}
            /\ locks[id].frame = "ui"

\* the worker waits for mutexes only, never for the dirty flag: at the lock
\* before the copy it can go on exactly when the frame mutex is free, whatever
\* upload_frame reads, and whenever it cannot take a step it stands at the
\* lock() of the frame, last_frame_time or video_props mutex, held by the UI thread
C10_WaitsOnlyForMutexes ==
    \A id \in Opened :
        /\ (~panicked /\ worker[id].pc = "frame_wait") =>
                (ENABLED WorkerLockFrame(id) <=> locks[id].frame = "free")
        /\ WorkerBlocked(id) =>
                \/ /\ worker[id].pc \in {"frame_wait", "caps_props"}
                   /\ locks[id].frame = "ui"
                \/ /\ worker[id].pc = "lft_wait"
                   /\ locks[id].last_frame_time = "ui"
                \/ /\ worker[id].pc = "caps"
                   /\ ~worker[id].caps_checked
                   /\ locks[id].video_props = "ui"

\* a sample the worker copies lands in the one frame buffer, over whatever was
\* there, and the dirty flag reads true afterwards, whether or not it was
\* already set: nothing is queued and nothing is held back
C10_WriteReplaces ==
    \A id \in Opened :
        /\ (/\ worker[id].pc = "copy"
            /\ worker'[id].pc = "swap"
            /\ worker[id].sample.len >= frame[id].len) =>
                /\ frame'[id].stamp = worker[id].sample.stamp
                /\ frame'[id].len = frame[id].len
        /\ (worker[id].pc = "swap" /\ worker'[id].pc = "copied") =>
                upload_frame'[id]

\* C10, amended: single-slot overwrite handoff.  The decode worker's write of a
\* new frame never waits for the drawing context to consume the dirty flag; a
\* frame written while the dirty flag is still set replaces the unconsumed
\* frame (no queue, no backpressure); the waits the worker can incur are for
\* the frame mutex, the last_frame_time mutex and, on the sample whose caps it
\* reads, the video_props mutex.
C10_OverwriteHandoff == [](C10_WaitsOnlyForMutexes) /\ [][C10_WriteReplaces]_vars

\* the second frame has been written over the first, which no draw consumed:
\* the flag is still set, no primitive was made from it and nothing was uploaded
C10_Witness ==
    /\ RingId \in Opened
    /\ alive[RingId]
    /\ frame[RingId].stamp = 2
    /\ upload_frame[RingId]
    /\ videos = << >>
    /\ prims = {}
    /\ dpc = Idle

\* C11: most recent whole frame. The bytes an upload is handed are one frame,
\* the same sample in every part of the buffer, and that sample is the one whose
\* copy the worker had last completed when the drawing context took the frame
\* mutex.
C11_MostRecentWholeFrame ==
    last.op = "upload" =>
        /\ last.up.frame.head = last.up.frame.stamp
        /\ last.up.frame.stamp = dpc.latest
        /\ last.up.frame = frame[last.id]

\* the first upload of a video carries the second frame: the first one was
\* overwritten before the drawing context took the mutex
C11_Witness ==
    /\ last.op = "upload"
    /\ last.id \notin last.keys
    /\ last.up.frame.stamp = 2
    /\ last.up.frame.head = 2

C13_SilentNoOps ==
    [][/\ (last'.op = "draw" /\ last'.outcome = "absent") =>
              /\ UNCHANGED <<videos, written, bound, reclaimed, panicked, gpu_error>>
              /\ UNCHANGED <<session_vars, prims, dpc, thread_vars>>
       /\ (last'.op = "prepare" /\ last'.outcome = "absent") =>
              /\ last'.offset = -1
              /\ last'.id \notin DOMAIN videos'
              /\ \A id \in DOMAIN videos' :
                    /\ id \in DOMAIN videos
                    /\ videos'[id] = videos[id]
                    /\ written'[id] = written[id]
              /\ UNCHANGED <<panicked, gpu_error, session_vars>>
       /\ (/\ dpc.at = "frame"
           /\ dpc'.at = "uploaded_locked"
           /\ frame[dpc.video_id].len = 0) =>
              /\ last'.op # "upload"
              /\ UNCHANGED <<videos, written, bound, panicked, gpu_error>>
              /\ UNCHANGED session_vars
      ]_vars

\* the adapter's prepare found the frame buffer empty, skipped the upload, and
\* its pipeline.prepare then found no entry for the id
C13_Witness ==
    /\ last.op = "prepare"
    /\ last.outcome = "absent"
    /\ last.id \in Opened
    /\ frame[last.id].len = 0
    /\ \A p \in prims : p.upload_frame
    /\ ~panicked
    /\ ~gpu_error

\* C14, as stated: an undersized frame buffer and a failed lock are swallowed.
\* The adapter's prepare never panics, and it calls no upload with a frame
\* buffer shorter than the two planes of the size it carries.
C14_UndersizedSwallowed ==
    /\ ~panicked
    /\ last.op = "upload" =>
            last.up.frame.len >=
                LumaBytes(last.up.size[1], last.up.size[2])
                    + ChromaBytes(last.up.size[1], last.up.size[2])

\* C18: upload byte counts. For width and height both even and at least 2 and
\* a frame buffer of width * height * 3 / 2 bytes, upload hands the first
\* width * height bytes to the luma write and exactly the following
\* (width/2) * (height/2) * 2 bytes, to the end of the buffer, to the chroma
\* write; with textures of that size both writes go through; the frame buffer
\* is afterwards what it was.
C18_UploadByteCounts ==
    LET w == last.up.size[1]
        h == last.up.size[2]
        f == last.up.frame
    IN  (/\ last.op = "upload"
         /\ w % 2 = 0 /\ h % 2 = 0 /\ w >= 2 /\ h >= 2
         /\ 2 * f.len = w * h * 3) =>
            /\ last.up.y_from = 0
            /\ last.up.y_bytes = w * h
            /\ last.up.uv_from = w * h
            /\ last.up.uv_bytes = (w \div 2) * (h \div 2) * 2
            /\ last.up.uv_last = last.up.uv_from + last.up.uv_bytes - 1
            /\ last.up.uv_last = f.len - 1
            /\ (videos[last.id].width = w /\ videos[last.id].height = h) =>
                    last.outcome = "ok"
            /\ frame[last.id] = f

\* a 4 x 4 frame of 24 bytes has been uploaded
C18_Witness ==
    /\ last.op = "upload"
    /\ last.outcome = "ok"
    /\ last.up.size = <<4, 4>>
    /\ last.up.frame.len = 24
    /\ last.up.uv_bytes = 8

\* C15, as stated: the dirty flag follows the write. When a worker iteration
\* has set upload_frame, the bytes of the sample it pulled are in the frame
\* buffer; the flag is not set in an iteration that wrote no bytes.
C15_DirtyFollowsWrite ==
    \A id \in Opened :
        worker[id].pc = "copied" =>
            /\ worker[id].copied
            /\ frame[id].stamp = worker[id].sample.stamp
            /\ frame[id].head = worker[id].sample.stamp

\* C16, as stated: the drawing context holds the frame mutex only for the copy
\* of the two planes: not while an entry's GPU resources are created, not while
\* the transform is written, not during the sweep, not during draw.
C16_LockOnlyForPlaneCopy ==
    /\ (last.op = "upload" /\ last.id \notin last.keys) =>
            locks[last.id].frame # "ui"
    /\ last.op \in {"prepare", "draw"} =>
            \A id \in Opened : locks[id].frame # "ui"

\* C16, amended: the drawing context holds the frame mutex from frame.lock() in
\* the adapter's prepare to the end of the upload block, that is for the whole
\* of pipeline.upload: the creation of the entry's GPU resources when the id
\* has no entry, then the copy of the two planes. It does not hold it while the
\* transform is written, during the cleanup sweep, or during draw.
C16_LockHeldAcrossUpload ==
    /\ \A id \in Opened :
            locks[id].frame = "ui" <=>
                (dpc.video_id = id /\ dpc.at \in {"frame", "uploaded_locked"})
    /\ last.op = "upload" => locks[last.id].frame = "ui"
    /\ last.op \in {"prepare", "draw"} =>
            \A id \in Opened : locks[id].frame # "ui"

\* an upload has created the entry of its id, the frame mutex held, while the
\* decode worker stands at its frame_ref.lock()
C16_Witness ==
    /\ last.op = "upload"
    /\ last.id \notin last.keys
    /\ last.id \in DOMAIN videos
    /\ locks[last.id].frame = "ui"
    /\ worker[last.id].pc = "frame_wait"

\* every id handed out so far is below the counter
C17_IdsBelowCounter == \A id \in Opened : id < next_id

\* a step that hands out an id hands out the value of the counter, which no
\* session has and which is greater than every id handed out before, and
\* advances the counter by one
C17_FreshId ==
    (next_id' # next_id \/ Opened' # Opened) =>
        /\ next_id' = next_id + 1
        /\ Opened \subseteq Opened'
        /\ Opened' \ Opened \subseteq {next_id}
        /\ \A id \in Opened : id < next_id

\* C17: video ids are unique and monotonically assigned. The sessions
\* constructed in a run, whether their constructors succeed or fail and however
\* they interleave, receive pairwise distinct ids, each greater than every id
\* assigned before, and no id is handed out twice.
C17_UniqueMonotonicIds == [](C17_IdsBelowCounter) /\ [][C17_FreshId]_vars

\* two sessions hold the ids 0 and 1
C17_Witness ==
    /\ next_id >= 2
    /\ Cardinality(Opened) >= 2
    /\ \A id \in Opened : id < next_id

\* the bytes of the output pixels of a call that returned, as <<r, g, b, a>>
OutputPixels ==
    {<<thumb.rgba[4 * k + 1], thumb.rgba[4 * k + 2], thumb.rgba[4 * k + 3],
       thumb.rgba[4 * k + 4]>> : k \in 0 .. (Len(thumb.rgba) \div 4 - 1)}

\* a and b differ by at most one
Within1(a, b) == a - b \in {-1, 0, 1}

\* C19: colour conversion reference points. With downscale 1, a uniform buffer
\* Y=235, U=128, V=128 gives (255, 255, 255, 255) for every output pixel and a
\* uniform buffer Y=16, U=128, V=128 gives (0, 0, 0, 255), each colour channel
\* within one unit (the fraction is truncated), alpha exactly.
C19_ReferencePoints ==
    (thumb.outcome = "ok" /\ thumb.downscale = 1) =>
        /\ thumb.yuv = <<235, 128, 128>> =>
                \A p \in OutputPixels :
                    /\ Within1(p[1], 255) /\ Within1(p[2], 255) /\ Within1(p[3], 255)
                    /\ p[4] = 255
        /\ thumb.yuv = <<16, 128, 128>> =>
                \A p \in OutputPixels :
                    /\ Within1(p[1], 0) /\ Within1(p[2], 0) /\ Within1(p[3], 0)
                    /\ p[4] = 255

\* a 4 x 4 white buffer has been converted at downscale 1: 16 pixels,
\* 1.164 * 219 = 254.9 truncated to 254
C19_Witness ==
    /\ thumb.outcome = "ok"
    /\ thumb.downscale = 1
    /\ thumb.yuv = <<235, 128, 128>>
    /\ thumb.width = 4 /\ thumb.height = 4
    /\ Len(thumb.rgba) = 64
    /\ OutputPixels = {<<254, 254, 254, 255>>}

\* C20, as stated: colour conversion output shape. For every width, height and
\* downscale >= 1, the call returns 4 * (width/downscale) * (height/downscale)
\* bytes, and every fourth byte is 255.
C20_OutputShape ==
    thumb.outcome # "none" =>
        /\ thumb.outcome = "ok"
        /\ Len(thumb.rgba) =
                4 * (thumb.width \div thumb.downscale)
                  * (thumb.height \div thumb.downscale)
        /\ \A i \in 1 .. Len(thumb.rgba) : i % 4 = 0 => thumb.rgba[i] = 255

\* what a lookup returned, without the tag and the device it was made with
Answer(l) ==
    <<l.bit_depth, l.y_texture_format, l.uv_texture_format, l.bytes_per_pixel>>

\* C21: the pixel-format catalog is total and pure. Every tag maps to a bit
\* depth in {8, 10, 12, 16} and a bytes-per-sample in {1, 2}: one byte and the
\* 8-bit unorm plane layouts exactly for the 8-bit tag, two bytes and the
\* half-float plane layouts for the 10-, 12- and 16-bit tags; the same tag
\* yields the same result at every call.
C21_CatalogTotalAndPure ==
    /\ \A i \in 1 .. Len(lookups) :
        LET l == lookups[i]
        IN  /\ l.bit_depth \in {8, 10, 12, 16}
            /\ l.bytes_per_pixel \in {1, 2}
            /\ l.bit_depth = 8 <=> l.format = "Nv12"
            /\ l.bit_depth = 8 =>
                    /\ l.bytes_per_pixel = 1
                    /\ l.y_texture_format = "R8Unorm"
                    /\ l.uv_texture_format = "Rg8Unorm"
            /\ l.bit_depth \in {10, 12, 16} =>
                    /\ l.bytes_per_pixel = 2
                    /\ l.y_texture_format = "R16Float"
                    /\ l.uv_texture_format = "Rg16Float"
    /\ \A i, j \in 1 .. Len(lookups) :
        lookups[i].format = lookups[j].format => Answer(lookups[i]) = Answer(lookups[j])

\* every tag has been looked up at least once in three calls, one of them twice
\* on different devices
C21_Witness ==
    /\ Len(lookups) = 3
    /\ lookups[1].format = "P010Le"
    /\ lookups[2].format = "Nv12"
    /\ lookups[3].format = "P010Le"
    /\ lookups[1].device # lookups[3].device
    /\ lookups[1].bit_depth = 10

\* C22, as stated: prepare-then-draw binds the fresh transform after any
\* history. For a live entry, a prepare(id) that is followed at once by
\* draw(id) has written the slot that this draw binds, whatever calls were made
\* for the id before.
C22_DrawBindsFreshSlot ==
    [][(/\ last.op = "prepare"
        /\ last.outcome = "ok"
        /\ last'.op = "draw"
        /\ last'.id = last.id
        /\ last'.outcome = "ok")
            => last'.offset = last.offset]_vars

\* C24, as stated: texture size matches every upload. After an upload for an
\* id, the entry's luma texture is (width, height) and its chroma texture
\* (width/2, height/2) for the (width, height) passed to that upload, also when
\* an earlier upload with other dimensions created the entry.
C24_TextureSizeMatches ==
    last.op = "upload" =>
        LET entry == videos[last.id]
        IN  /\ <<entry.width, entry.height>> = last.up.size
            /\ <<entry.width \div 2, entry.height \div 2>> =
                    <<last.up.size[1] \div 2, last.up.size[2] \div 2>>

\* the (U, V) pair at index i of the buffer is the one of the 2 x 2 block of
\* source pixels that holds (sx, sy)
Covers(t, i, sx, sy) ==
    \E r \in 0 .. (t.height \div 2 - 1), c \in 0 .. (t.width \div 2 - 1) :
        /\ i = t.width * t.height + t.width * r + 2 * c
        /\ sx \in {2 * c, 2 * c + 1}
        /\ sy \in {2 * r, 2 * r + 1}

\* C27: thumbnail sampling stays in bounds. For even width >= 2, even
\* height >= 2, downscale >= 1 and a buffer of width * height * 3 / 2 bytes,
\* every luma and chroma index yuv_to_rgba reads is smaller than the buffer
\* length, the call does not panic, and the chroma pair read for output pixel
\* (x, y) is the one covering source pixel (x * downscale, y * downscale).
C27_SamplingInBounds ==
    (/\ thumb.width % 2 = 0 /\ thumb.width >= 2
     /\ thumb.height % 2 = 0 /\ thumb.height >= 2
     /\ thumb.downscale >= 1
     /\ 2 * thumb.len = thumb.width * thumb.height * 3) =>
        /\ thumb.outcome # "panic"
        /\ \A x \in 0 .. (thumb.width \div thumb.downscale - 1),
              y \in 0 .. (thumb.height \div thumb.downscale - 1) :
            /\ LumaIndex(thumb, x, y) < thumb.len
            /\ LumaIndex(thumb, x, y) < thumb.width * thumb.height
            /\ ChromaIndex(thumb, x, y) >= thumb.width * thumb.height
            /\ ChromaIndex(thumb, x, y) + 1 < thumb.len
            /\ Covers(thumb, ChromaIndex(thumb, x, y),
                      x * thumb.downscale, y * thumb.downscale)

\* a 4 x 2 buffer of 12 bytes has been sampled at downscale 1: eight pixels
C27_Witness ==
    /\ thumb.outcome = "ok"
    /\ thumb.width = 4 /\ thumb.height = 2
    /\ thumb.len = 12
    /\ thumb.downscale = 1
    /\ thumb.yuv = <<81, 90, 240>>
    /\ Len(thumb.rgba) = 32

\* C28: retry budget. Between two calls of reset_error_state at most 5 calls
\* of should_retry_on_error return true, so that once 5 retries are granted
\* every further call returns false; a call that returns true leaves
\* error_count at the number of retries granted so far.
C28_RetryBudget ==
    /\ update.granted <= 5
    /\ update.call = "true" => update.granted = internal.error_count

\* five retries were granted and the sixth counted error was refused
C28_Witness ==
    /\ update.granted = 5
    /\ update.call = "false"
    /\ update.network
    /\ internal.error_count = 6
    /\ internal.last_error_time = clock

\* C29, as stated: reconnection only after an approved retry. attempt_reconnect
\* runs in an update only if should_retry_on_error returned true for an error
\* message of that same update.
C29_ReconnectOnlyApproved ==
    [][update'.attempts > update.attempts => update.approved]_vars

\* the step is a call of should_retry_on_error
RetryCall == update.at = "bus" /\ update'.at = "bus" /\ clock' = clock

\* the error counters of Internal
Counters(i) == <<i.error_count, i.last_error_time>>

\* C30: exponential backoff leaves the state untouched when refusing. A
\* network error less than 2^min(error_count, 5) seconds after the last counted
\* error is refused and changes neither error_count nor last_error_time; an
\* error that is not a network error is refused and changes neither; a call
\* outside the window, and no other, adds one to error_count and sets
\* last_error_time to the time of the call.
C30_BackoffLeavesState ==
    [][RetryCall =>
        LET window == 2 ^ Min(internal.error_count, 5)
            inside == /\ internal.last_error_time # -1
                      /\ clock - internal.last_error_time < window
        IN  /\ ~update'.network =>
                    update'.call = "false" /\ Counters(internal') = Counters(internal)
            /\ (update'.network /\ inside) =>
                    update'.call = "false" /\ Counters(internal') = Counters(internal)
            /\ (update'.network /\ ~inside) =>
                    Counters(internal') = <<internal.error_count + 1, clock>>
            /\ Counters(internal') # Counters(internal) =>
                    update'.network /\ ~inside
      ]_vars

\* a network error was refused 3 seconds after the second counted error, inside
\* the window of 4 seconds
C30_Witness ==
    /\ update.at = "bus"
    /\ update.call = "false"
    /\ update.network
    /\ internal.error_count = 2
    /\ clock - internal.last_error_time = 3


\* ----------------------- C25: the locks of the worker and the UI thread

\* the mutexes of Internal the two threads share
SharedLocks == {"video_props", "frame", "last_frame_time"}

\* the mutex the UI thread is blocked on, inside draw or thumbnails
UiWants ==
    CASE dpc.at = "lft_wait" -> "last_frame_time"
      [] dpc.at = "dims_wait" -> "video_props"
      [] dpc.at = "t_frame_wait" -> "frame"
      [] OTHER -> "none"

\* the mutex the worker is blocked on
WorkerWants(w) ==
    CASE w.pc = "caps" /\ ChecksCaps(w) -> "video_props"
      [] w.pc = "caps_props" -> "frame"
      [] w.pc = "lft_wait" -> "last_frame_time"
      [] w.pc = "frame_wait" -> "frame"
      [] OTHER -> "none"

\* the UI thread is inside the critical section of mutex l: its next steps
\* release l and wait for nothing
UiReleases(l) ==
    CASE l = "video_props" -> dpc.at \in {"props1", "props2", "t_props"}
      [] l = "last_frame_time" -> dpc.at = "lft"
      [] l = "frame" -> dpc.at \in {"frame", "uploaded_locked", "t_frame"}

\* the worker is inside the critical section of mutex l
WorkerReleases(w, l) ==
    CASE l = "video_props" -> w.pc \in {"caps_props", "caps_frame"}
      [] l = "last_frame_time" -> w.pc = "lft"
      [] l = "frame" -> w.pc \in {"caps_frame", "copy_head", "copy", "swap", "copied"}

\* each thread waits for a mutex the other holds
CyclicWait(id) ==
    /\ UiWants # "none"
    /\ WorkerWants(worker[id]) # "none"
    /\ dpc.video_id = id
    /\ locks[id][UiWants] = "worker"
    /\ locks[id][WorkerWants(worker[id])] = "ui"

\* C25: no interleaving of the worker loop with draw, the primitive's prepare
\* and thumbnails reaches a state in which each thread waits for a mutex the
\* other holds. The UI thread holds a mutex only inside that mutex's critical
\* section and waits for none while it holds one; the worker holds a mutex
\* only inside its critical section, and the one mutex it waits for while
\* holding another (frame, under video_props) is never held by a UI thread
\* that waits.
C25_DeadlockFree ==
    \A id \in Opened :
        /\ ~CyclicWait(id)
        /\ \A l \in SharedLocks :
            /\ locks[id][l] = "ui" =>
                    dpc.video_id = id /\ UiReleases(l) /\ UiWants = "none"
            /\ locks[id][l] = "worker" =>
                    /\ WorkerReleases(worker[id], l)
                    /\ WorkerWants(worker[id]) \in {"none", "frame"}

\* the worker waits for the frame mutex while thumbnails reads the buffer under
\* it, and thumbnails goes on without waiting
C25_Witness ==
    /\ RingId \in Opened
    /\ worker[RingId].pc = "frame_wait"
    /\ locks[RingId].frame = "ui"
    /\ dpc.at = "t_frame"


\* ----------------------------------------- C26: the teardown of a session

\* the session has been dropped: Drop has stored false in alive
Dropped(id) == id \in Opened /\ ~alive[id]

\* the worker thread has left its loop
Left(id) == worker[id].pc \in {"exited", "joined"}

\* worker.join() has returned
Joined(id) == id \in Opened /\ worker[id].pc = "joined"

Written(n) ==
    /\ RingId \in Opened
    /\ worker[RingId].done = n
    /\ upload_frame[RingId]

\* an upload hands frame n or a later one to the Registry
Uploaded(n) ==
    /\ last.op = "upload"
    /\ last.id = RingId
    /\ last.outcome = "ok"
    /\ last.up.frame.stamp >= n

\* thumbnails has stored false in the flag and spins until the worker sets it
Spinning ==
    /\ dpc.at = "t_spin"
    /\ ~upload_frame[dpc.video_id]

\* a step clears the dirty flag of the video
Clears(id) == id \in Opened /\ upload_frame[id] /\ ~upload_frame'[id]

\* the swap of VideoPlayer::draw clears the flag and keeps what it read
SwapCarries(id) ==
    /\ dpc.at = "swap"
    /\ dpc.video_id = id
    /\ dpc'.upload_frame

\* thumbnails clears the flag after its seek
ThumbnailsStores(id) ==
    /\ dpc.at = "t_seek"
    /\ dpc.video_id = id
    /\ dpc'.at = "t_spin"

\* C23, as stated (its second clause): the dirty flag is cleared only by the
\* drawing context's atomic swap.
C23_ClearedOnlyBySwap == [][Clears(RingId) => SwapCarries(RingId)]_vars

\* C23, amended: no frame is lost at the handoff. The dirty flag is cleared by
\* the swap of draw, whose true result is carried by the primitive to an upload
\* in the same presented frame, and by thumbnails, which stores false after its
\* seek and returns only when the worker has set the flag again. If the worker
\* has written frame n and set the flag and the host keeps drawing and
\* preparing the widget, then frame n or a later one is eventually uploaded,
\* unless the video is dropped or thumbnails is left spinning on the flag.
C23_NoFrameLost ==
    /\ [][Clears(RingId) => (SwapCarries(RingId) \/ ThumbnailsStores(RingId))]_vars
    /\ [][(dpc.at = "t_spin" /\ dpc'.at # "t_spin")
            => (upload_frame'[dpc.video_id] /\ dpc'.upload_frame)]_vars
    /\ [][(present = "prepare" /\ present' = "render" /\ dpc.upload_frame)
            => (dpc.sent # -1 /\ dpc.sent >= dpc.latest)]_vars
    /\ \A n \in 1 .. MaxFrames :
            Written(n) ~> (Uploaded(n) \/ Dropped(RingId) \/ Spinning)

\* thumbnails has taken the flag once and returned, the worker has written its
\* last frame, and the draw that followed carried it to an upload
C23_Witness ==
    /\ thumbs = "Ok"
    /\ dpc.at = "uploaded_locked"
    /\ dpc.upload_frame
    /\ Uploaded(MaxFrames)
    /\ alive[RingId]

\* --------------------------------- C31: end of stream in one update

\* the UI thread has returned from an update that passed the test of line 241
Updated ==
    /\ playback.at = "idle"
    /\ playback.call = "update"
    /\ playback.began

\* C31: end-of-stream handling in one redraw update. After an update that
\* handled an Eos message with looping set, the stream was restarted (is_eos
\* false, the pipeline not paused) and the update did not pause it; after one
\* that handled an Eos message without looping and had no restart to do,
\* is_eos is true and the pipeline is paused; a restart requested in the update
\* is done and the EOS pause is not.
C31_EosHandling ==
    Updated =>
        /\ playback.eos_loop =>
                /\ playback.restarted
                /\ ~playback.paused
                /\ ~playback.is_eos
                /\ ~Paused(playback)
        /\ (playback.eos_stop /\ ~playback.flagged) =>
                /\ playback.paused
                /\ playback.is_eos
                /\ Paused(playback)
        /\ (playback.flagged \/ playback.eos_loop) =>
                /\ playback.restarted
                /\ ~playback.paused

\* -------------------------- C32: resume after end of stream restarts once

\* the step is a call of set_paused(false)
SetPausedFalse ==
    /\ playback.at = "idle"
    /\ playback'.at = "idle"
    /\ playback'.bus = playback.bus
    /\ playback'.call = "set_paused(false)"
    /\ playback'.began = playback.began

\* the step is the restart_stream() of an update
UpdateRestarts == ~playback.restarted /\ playback'.restarted

\* C32: resume after end of stream restarts exactly once. set_paused(false)
\* while is_eos is true sets the restart_stream flag and no other call sets it;
\* an update that finds the flag set clears it, restarts the stream and leaves
\* is_eos false; and an update restarts the stream only if an Eos message has
\* been handled since the last restart by an update.
C32_ResumeRestartsOnce ==
    /\ [][(SetPausedFalse /\ playback.is_eos) => playback'.restart_stream]_vars
    /\ [][(~playback.restart_stream /\ playback'.restart_stream)
            => (SetPausedFalse /\ playback.is_eos)]_vars
    /\ []((Updated /\ playback.flagged) =>
            /\ playback.restarted
            /\ ~playback.restart_stream
            /\ ~playback.is_eos)
    /\ [][UpdateRestarts => (playback.fresh /\ ~playback'.fresh)]_vars

\* the stream ended without looping, set_paused(false) was called, and the
\* update after it has restarted the stream
C32_Witness ==
    /\ Updated
    /\ playback.flagged
    /\ playback.restarted
    /\ ~playback.eos_stop
    /\ ~playback.eos_loop
    /\ ~playback.is_eos
    /\ playback.state = "Playing"

\* ------------------------------------ C33, C34: appsink track selection

\* C33: track selection is all-or-nothing. Whenever select_subtitle_track or
\* select_audio_track has returned an error, current_subtitle_track,
\* current_audio_track, subtitles_enabled and selected_stream_ids are what they
\* were before the call.
C33_SelectionAllOrNothing ==
    (/\ tracks.call.op \in {"select_subtitle_track", "select_audio_track"}
     /\ tracks.call.result = "Err")
        => Selection(tracks) = tracks.before

\* C34: subtitle disable/enable round trip. With a subtitle track selected,
\* set_subtitles_enabled(false) followed by set_subtitles_enabled(true) leaves
\* current_subtitle_track and subtitles_enabled as they were before the
\* disable.
C34_SubtitleRoundTrip ==
    (/\ tracks.round = "enabled"
     /\ tracks.saved[1] # NoTrack
     /\ tracks.saved[3])
        => /\ tracks.current_subtitle_track = tracks.saved[1]
           /\ tracks.subtitles_enabled = tracks.saved[3]

\* ---------------------------------------------------------------------- C35

\* the ids of the selection that the table holds
Chosen(v, table) == {id \in Range(v.selected_stream_ids) : id \in Range(table)}

\* the id the table holds at the index, when the index is one of the table
At(table, index) ==
    IF index >= 0 /\ index < Len(table) THEN {table[index + 1]} ELSE {}

\* C35: Wayland selection consistency. After any sequence of applied
\* stream-collection updates and successful select_audio_track and
\* select_subtitle_track calls, selected_stream_ids has no duplicates and
\* holds, of the audio ids, exactly the one at index current_audio_track, and
\* of the subtitle ids exactly the one at index current_subtitle_track (none
\* when it is None); subtitles_enabled is true exactly when
\* current_subtitle_track is Some.
C35_SelectionConsistent ==
    /\ Cardinality(Range(streams.selected_stream_ids))
            = Len(streams.selected_stream_ids)
    /\ Chosen(streams, streams.audio_index_to_stream_id)
            = At(streams.audio_index_to_stream_id, streams.current_audio_track)
    /\ Chosen(streams, streams.subtitle_index_to_stream_id)
            = At(streams.subtitle_index_to_stream_id,
                 streams.current_subtitle_track)
    /\ streams.subtitles_enabled <=> streams.current_subtitle_track # NoTrack

\* ---------------------------------------------------------------------- C36

\* the step hands a SelectStreams event to the pipeline
Sends == bus_thread'.attempts = bus_thread.attempts + 1

\* a send failed and none has succeeded since
SendFailed == bus_thread.attempts > 0 /\ ~bus_thread.did_send_select

\* the step handles a message on which the initial selection is sent again:
\* a StreamCollection, an AsyncDone, or a StateChanged of the pipeline itself
\* to Paused or Playing
Retries ==
    LET m == bus_thread'.message
    IN  /\ bus_thread'.handled = bus_thread.handled + 1
        /\ \/ m.kind \in {"StreamCollection", "AsyncDone"}
           \/ /\ m.kind = "StateChanged"
              /\ m.pipeline
              /\ m.current \in {"Paused", "Playing"}

\* the step handles a StreamCollection, a StateChanged or an AsyncDone message
RetriesOnAny ==
    /\ bus_thread'.handled = bus_thread.handled + 1
    /\ bus_thread'.message.kind \in {"StreamCollection", "StateChanged", "AsyncDone"}

\* the initial selection is sent only once a collection was received and the
\* pipeline was seen in Paused or Playing, it carries the selection staged
\* last, and after a successful send none follows
SentOnceInOrder ==
    /\ Sends => /\ bus_thread'.collected
                /\ bus_thread'.reached
                /\ bus_thread'.event = bus_thread'.desired_select_ids
                /\ ~bus_thread.did_send_select
    /\ bus_thread.did_send_select =>
            /\ bus_thread'.did_send_select
            /\ bus_thread'.attempts = bus_thread.attempts
    /\ bus_thread'.sent = bus_thread.sent + 1 => bus_thread.sent = 0

\* C36: the initial stream selection is sent once and in order. The bus
\* thread sends the initial SelectStreams event only after it has both
\* received a StreamCollection and seen the pipeline reach Paused or Playing;
\* a failed send is retried on a later StreamCollection message, AsyncDone
\* message, or StateChanged message of the pipeline to Paused or Playing; and
\* after one successful send it never sends the initial selection again.
C36_InitialSelectionOnce ==
    [][/\ SentOnceInOrder
       /\ (SendFailed /\ Retries) => Sends]_vars

\* a send failed, and a later message made the thread send again
C36_Witness ==
    /\ bus_thread.attempts = 2
    /\ bus_thread.sent = 1
    /\ bus_thread.did_send_select
    /\ bus_thread.handled < MaxMessages

\* C36 as stated: a failed send is retried on every later StreamCollection,
\* StateChanged or AsyncDone message
C36_RetriedOnAnyStateChange ==
    [][/\ SentOnceInOrder
       /\ (SendFailed /\ RetriesOnAny) => Sends]_vars

\* ---------------------------------------------------------------------- C37

\* the PendingState the video holds: queued, or taken by the tick under way
Held(p) == IF p.at = "taken" THEN p.st ELSE p.pending_state

\* the step applies the state held to the end
Applies ==
    /\ pending'.applied = Append(pending.applied, Held(pending))
    /\ Held(pending') = 0

\* the step is a queue_pending_state call, whose state takes the place of the
\* one held
Replaces ==
    /\ pending'.queued = pending.queued + 1
    /\ Held(pending') = pending'.queued

\* no state is applied twice, and none is held after it was applied
AppliedOnce ==
    /\ Cardinality(Range(pending'.applied)) = Len(pending'.applied)
    /\ Held(pending') \notin Range(pending'.applied)
    /\ pending'.applied # pending.applied => Applies

\* C37: pending playback state is retained until applied. A PendingState
\* queued with queue_pending_state is not discarded before it has been
\* applied, unless a later queue_pending_state call puts another in its place;
\* each tick takes it and puts it back if no pipeline exists yet or if
\* applying it fails at the seek, and after one successful application it is
\* cleared and not applied again.
C37_PendingRetained ==
    [][/\ Held(pending) # 0 =>
            \/ Held(pending') = Held(pending)
            \/ Applies
            \/ Replaces
       /\ AppliedOnce]_vars

\* a state was put back for want of a pipeline, put back after a failed seek,
\* and then applied
C37_Witness ==
    /\ pending.no_pipeline
    /\ pending.partial > 0
    /\ pending.applied = <<1>>
    /\ pending.pending_state = 0
    /\ pending.at = "idle"

\* C37 as stated: a queued PendingState is never discarded before it has
\* been applied
C37_NeverDiscarded ==
    [][/\ Held(pending) # 0 =>
            \/ Held(pending') = Held(pending)
            \/ Applies
       /\ AppliedOnce]_vars

\* ---------------------------------------------------------------------- C38

\* no setter call and no hook run is under way, and no update is pending
Settled ==
    /\ subsurface.setter.at = "idle"
    /\ subsurface.hook.at = "idle"
    /\ ~subsurface.needs_update

\* C38: no subsurface geometry update is lost. After set_position (with a
\* changed position), set_size or set_source_size has returned, the hook run
\* that consumes the pending flag applies the latest stored position, size and
\* source rectangle to the subsurfaces, under every interleaving of setters
\* and hook: once no update is pending and no run is under way, the surfaces
\* have what is stored. A hook run with no update pending issues no surface
\* request.
C38_NoUpdateLost ==
    /\ Settled =>
            /\ subsurface.surfaces.position = subsurface.position
            /\ subsurface.surfaces.destination = subsurface.size
            /\ subsurface.surfaces.source = subsurface.source_size
    /\ subsurface.issued => subsurface.hook.swapped

====
